---- MODULE Spec2Model ----
(***************************************************************************)
(* A model of mobu's concurrent virtual-user engine: the Monkey            *)
(* supervision loop (monkey.py), the Business run loop it supervises       *)
(* (business/notebookrunner.py) and the Flock that creates, starts, stops  *)
(* and summarises a population of Monkeys (flock.py).                      *)
(*                                                                         *)
(* Strings are sequences of character codes, so that zero padding and the  *)
(* lexicographic order of usernames are computed, not assumed.  An         *)
(* optional integer (int | None) is a set with at most one element.        *)
(***************************************************************************)
EXTENDS Integers, Sequences, FiniteSets, TLC

VARIABLES
    cfg,          \* FlockConfig: users, count, user_spec, business, restart
    flock_pc,     \* position of Flock.start() / Flock.stop()
    users,        \* Flock.start: the list returned by _create_users()
    next_user,    \* Flock.start: index of the next user of the for loop
    _monkeys,     \* Flock._monkeys: dict username -> Monkey (a monkey id)
    _start_time,  \* Flock._start_time: "None" or "recorded"
    monkeys,      \* the Monkey objects ever created, by creation index
    ret,          \* what the call made in the last step returned or raised
    now,          \* the clock read by datetime.now(), in ticks
    stopwatches,  \* the Stopwatch objects of timing.py, by creation index
    nb,           \* one NubladoBusiness: its position, options, timings
    jc,           \* one JupyterClient call: its request, its progress
    nr            \* one NotebookRunner pass: its position, its sessions

\* The variables of the Flock and its Monkeys, and the others.
flockVars == <<cfg, flock_pc, users, next_user, _monkeys, _start_time, monkeys>>
otherVars == <<now, stopwatches, nb, jc, nr>>
vars == <<cfg, flock_pc, users, next_user, _monkeys, _start_time, monkeys, ret,
          now, stopwatches, nb, jc, nr>>

----------------------------------------------------------------------------
(* Bounds of the model.                                                    *)

\* Most Monkeys in a flock of the concurrent specification.
MaxMonkeys == 2
\* Most execute passes (successes plus failures) over the whole flock.
MaxPasses == 2
\* Largest count of a generated user spec in the specification SpecUsers.
MaxGenCount == 101

MonkeyIds == 1..MaxMonkeys

----------------------------------------------------------------------------
(* Strings and user generation (flock.py, Flock._users_from_spec).         *)

\* str(i) for i >= 0: the decimal digits, most significant first.
RECURSIVE str(_)
str(i) == IF i < 10 THEN <<48 + i>> ELSE str(i \div 10) \o <<48 + (i % 10)>>

\* s.zfill(width): pad on the left with "0" up to width, never truncate.
RECURSIVE zfill(_, _)
zfill(s, width) == IF Len(s) >= width THEN s ELSE zfill(<<48>> \o s, width)

\* int(math.log10(count)) for count >= 1.
RECURSIVE log10(_)
log10(count) == IF count < 10 THEN 0 ELSE 1 + log10(count \div 10)

\* Mutant of padding: the "+ 1" of the padding width is lost.
padding_NoPlusOne(count) == log10(count)

\* padding = int(math.log10(count) + 1)
padding(count) == log10(count) + 1

\* Generate count Users from the provided spec.
_users_from_spec(spec, count) ==
    [i \in 1..count |->
        [username |-> spec.username_prefix \o zfill(str(i), padding(count)),
         uidnumber |-> {s + i - 1 : s \in spec.uid_start},
         gidnumber |-> {s + i - 1 : s \in spec.gid_start}]]

\* Flock._create_users: the explicit list, or else the generated users.
_create_users ==
    IF cfg.users # <<>> THEN cfg.users
    ELSE _users_from_spec(cfg.user_spec, cfg.count)

----------------------------------------------------------------------------
(* Configurations.                                                         *)

\* Business classes of the registration table that the model distinguishes.
BusinessTypes == {"NotebookRunner", "Business"}

\* Usernames of explicitly configured users: "a" and "b".
ExplicitNames == {<<97>>, <<98>>}

\* An explicitly configured User.
User(name) == [username |-> name, uidnumber |-> {}, gidnumber |-> {}]

\* Explicit user lists; nothing in the configuration forbids a repeated name.
\* Up to renaming, the first user is "a".
ExplicitUsers ==
    {us \in UNION {[1..n -> {User(name) : name \in ExplicitNames}] : n \in 1..MaxMonkeys} :
        us[1].username = <<97>>}

\* Generated user specs: prefix "t", with and without uid and gid starts.
UserSpecs ==
    [username_prefix : {<<116>>}, uid_start : {{}, {1000}}, gid_start : {{}, {2000}}]

\* The usernames that lookups are tried with: "b", "t1" and "z", which is
\* never configured.
LookupNames == {<<98>>, <<116, 49>>, <<122>>}

----------------------------------------------------------------------------
(* Monkeys.                                                                *)

\* No call of summary() or get_monkey() was made in the last step.
NoCall == [call |-> "none"]

\* A Monkey slot before Flock.start() has created its Monkey.
NoMonkey ==
    [user |-> User(<<>>), restart |-> FALSE, state |-> "IDLE",
     business |-> [type |-> "Business", success_count |-> 0, failure_count |-> 0],
     job |-> "none", cancel_requested |-> FALSE, run |-> TRUE,
     stop_pc |-> "none"]

\* Flock._create_monkey and Monkey.__init__: state IDLE, counters at zero.
_create_monkey(user) ==
    [NoMonkey EXCEPT !.user = user, !.restart = cfg.restart,
                     !.business.type = cfg.business]

\* Execute passes done so far by all Monkeys.
RECURSIVE PassesOf(_)
PassesOf(n) ==
    IF n = 0 THEN 0
    ELSE monkeys[n].business.success_count + monkeys[n].business.failure_count
         + PassesOf(n - 1)
Passes == PassesOf(MaxMonkeys)

----------------------------------------------------------------------------
(* Business.run as NotebookRunner.run writes it: startup(), then passes of *)
(* lab_business() for ever.  The job field is the position at which the    *)
(* Monkey's task is suspended: "startup" and "execute" are inside          *)
(* business.run(), "backoff" is the sleep of the error handler.            *)

\* The outcome of run() raising an exception other than CancelledError into
\* Monkey._runner: state ERROR, log, alert, run = restart, then sleep(60).
RunnerCatchesException(mk) ==
    [mk EXCEPT !.state = "ERROR", !.run = mk.restart, !.job = "backoff"]

\* What alert() logs for the exception: the message names the user of the
\* Monkey.  It is held in ret for the step that follows the failure.
alert_msg(mk) == [call |-> "alert", username |-> mk.user.username]

\* The top of the while loop: state RUNNING, then business.run() begins.
RunnerEntersRun(mk) == [mk EXCEPT !.state = "RUNNING", !.job = "startup"]

\* The task's first step: run = True and the first pass of the while loop.
RunnerStart(m) ==
    /\ monkeys[m].job = "spawned"
    /\ ~monkeys[m].cancel_requested
    /\ monkeys' = [monkeys EXCEPT ![m] = RunnerEntersRun([@ EXCEPT !.run = TRUE])]
    /\ ret' = NoCall
    /\ UNCHANGED otherVars
    /\ UNCHANGED <<cfg, flock_pc, users, next_user, _monkeys, _start_time>>

\* A task cancelled before its first step never runs the coroutine.
RunnerCancelledUnstarted(m) ==
    /\ monkeys[m].job = "spawned"
    /\ monkeys[m].cancel_requested
    /\ monkeys' = [monkeys EXCEPT ![m].job = "done"]
    /\ ret' = NoCall
    /\ UNCHANGED otherVars
    /\ UNCHANGED <<cfg, flock_pc, users, next_user, _monkeys, _start_time>>

\* startup() returns: run() enters its while True loop.
StartupOk(m) ==
    /\ monkeys[m].job = "startup"
    /\ ~monkeys[m].cancel_requested
    /\ monkeys' = [monkeys EXCEPT ![m].job = "execute"]
    /\ ret' = NoCall
    /\ UNCHANGED otherVars
    /\ UNCHANGED <<cfg, flock_pc, users, next_user, _monkeys, _start_time>>

\* startup() raises: it is outside run()'s try, so no counter changes and
\* the exception reaches Monkey._runner.
StartupFails(m) ==
    /\ monkeys[m].job = "startup"
    /\ ~monkeys[m].cancel_requested
    /\ monkeys' = [monkeys EXCEPT ![m] = RunnerCatchesException(@)]
    /\ ret' = alert_msg(monkeys[m])
    /\ UNCHANGED otherVars
    /\ UNCHANGED <<cfg, flock_pc, users, next_user, _monkeys, _start_time>>

\* lab_business() returns: success_count += 1 and the loop goes on.
LabBusinessOk(m) ==
    /\ monkeys[m].job = "execute"
    /\ ~monkeys[m].cancel_requested
    /\ Passes < MaxPasses
    /\ monkeys' = [monkeys EXCEPT ![m].business.success_count = @ + 1]
    /\ ret' = NoCall
    /\ UNCHANGED otherVars
    /\ UNCHANGED <<cfg, flock_pc, users, next_user, _monkeys, _start_time>>

\* Mutant of LabBusinessFails: the failure is re-raised without being counted.
LabBusinessFails_NotCounted(m) ==
    /\ monkeys[m].job = "execute"
    /\ ~monkeys[m].cancel_requested
    /\ Passes < MaxPasses
    /\ monkeys' = [monkeys EXCEPT ![m] = RunnerCatchesException(@)]
    /\ ret' = alert_msg(monkeys[m])
    /\ UNCHANGED otherVars
    /\ UNCHANGED <<cfg, flock_pc, users, next_user, _monkeys, _start_time>>

\* Mutant of LabBusinessFails: the failure puts every Monkey in state ERROR.
LabBusinessFails_FlockWide(m) ==
    /\ monkeys[m].job = "execute"
    /\ ~monkeys[m].cancel_requested
    /\ Passes < MaxPasses
    /\ monkeys' = [k \in MonkeyIds |->
            IF k = m
            THEN RunnerCatchesException(
                     [monkeys[k] EXCEPT !.business.failure_count = @ + 1])
            ELSE [monkeys[k] EXCEPT !.state = "ERROR"]]
    /\ ret' = alert_msg(monkeys[m])
    /\ UNCHANGED otherVars
    /\ UNCHANGED <<cfg, flock_pc, users, next_user, _monkeys, _start_time>>

\* lab_business() raises: failure_count += 1, and the exception is re-raised
\* into Monkey._runner.
LabBusinessFails(m) ==
    /\ monkeys[m].job = "execute"
    /\ ~monkeys[m].cancel_requested
    /\ Passes < MaxPasses
    /\ monkeys' = [monkeys EXCEPT ![m] =
            RunnerCatchesException([@ EXCEPT !.business.failure_count = @ + 1])]
    /\ ret' = alert_msg(monkeys[m])
    /\ UNCHANGED otherVars
    /\ UNCHANGED <<cfg, flock_pc, users, next_user, _monkeys, _start_time>>

\* Whether this Business's run() can return normally: NotebookRunner.run is
\* a while True loop that never returns; the generic run loop exits when a
\* stop of the Business has been requested.
BusinessRunReturns(mk) == mk.business.type = "Business"

\* business.run() returns to Monkey._runner: state FINISHED.
RunnerFinished(m) ==
    /\ monkeys[m].job = "execute"
    /\ ~monkeys[m].cancel_requested
    /\ BusinessRunReturns(monkeys[m])
    /\ monkeys' = [monkeys EXCEPT ![m].state = "FINISHED", ![m].job = "finished"]
    /\ ret' = NoCall
    /\ UNCHANGED otherVars
    /\ UNCHANGED <<cfg, flock_pc, users, next_user, _monkeys, _start_time>>

\* After FINISHED the while condition is tested: run is still True.
RunnerLoops(m) ==
    /\ monkeys[m].job = "finished"
    /\ monkeys' = [monkeys EXCEPT ![m] =
            IF @.run THEN RunnerEntersRun(@) ELSE [@ EXCEPT !.job = "done"]]
    /\ ret' = NoCall
    /\ UNCHANGED otherVars
    /\ UNCHANGED <<cfg, flock_pc, users, next_user, _monkeys, _start_time>>

\* CancelledError is raised at the await inside business.run(): _runner logs
\* "Shutting down", sets run = False and leaves the loop.
RunnerCancelledInRun(m) ==
    /\ monkeys[m].job \in {"startup", "execute"}
    /\ monkeys[m].cancel_requested
    /\ monkeys' = [monkeys EXCEPT ![m].run = FALSE, ![m].job = "done"]
    /\ ret' = NoCall
    /\ UNCHANGED otherVars
    /\ UNCHANGED <<cfg, flock_pc, users, next_user, _monkeys, _start_time>>

\* CancelledError is raised at the sleep(60) of the except clause: no
\* handler of _runner catches it there, the task ends.
RunnerCancelledInBackoff(m) ==
    /\ monkeys[m].job = "backoff"
    /\ monkeys[m].cancel_requested
    /\ monkeys' = [monkeys EXCEPT ![m].job = "done"]
    /\ ret' = NoCall
    /\ UNCHANGED otherVars
    /\ UNCHANGED <<cfg, flock_pc, users, next_user, _monkeys, _start_time>>

\* Mutant of BackoffDone: the loop goes on whatever the restart flag says.
BackoffDone_AlwaysRestarts(m) ==
    /\ monkeys[m].job = "backoff"
    /\ ~monkeys[m].cancel_requested
    /\ monkeys' = [monkeys EXCEPT ![m] = RunnerEntersRun(@)]
    /\ ret' = NoCall
    /\ UNCHANGED otherVars
    /\ UNCHANGED <<cfg, flock_pc, users, next_user, _monkeys, _start_time>>

\* sleep(60) ends: the while condition is tested with run = restart.
BackoffDone(m) ==
    /\ monkeys[m].job = "backoff"
    /\ ~monkeys[m].cancel_requested
    /\ monkeys' = [monkeys EXCEPT ![m] =
            IF @.run THEN RunnerEntersRun(@) ELSE [@ EXCEPT !.job = "done"]]
    /\ ret' = NoCall
    /\ UNCHANGED otherVars
    /\ UNCHANGED <<cfg, flock_pc, users, next_user, _monkeys, _start_time>>

----------------------------------------------------------------------------
(* Flock.start().                                                          *)

\* self._monkeys[username] = monkey
DictSet(dict, key, value) ==
    [k \in DOMAIN dict \cup {key} |-> IF k = key THEN value ELSE dict[k]]

\* self._monkeys.values()
DictValues(dict) == {dict[k] : k \in DOMAIN dict}

\* Monkey.start: the scheduler spawns a job that will run _runner().
MonkeyStart(mk) == [mk EXCEPT !.job = "spawned"]

\* users = await self._create_users()
FlockStartCreatesUsers ==
    /\ flock_pc = "init"
    /\ users' = _create_users
    /\ next_user' = 1
    /\ flock_pc' = "starting"
    /\ ret' = NoCall
    /\ UNCHANGED otherVars
    /\ UNCHANGED <<cfg, _monkeys, _start_time, monkeys>>

\* One pass of the for loop: create the Monkey, register it under its
\* username, start it.
FlockStartsMonkey ==
    /\ flock_pc = "starting"
    /\ next_user <= Len(users)
    /\ monkeys' = [monkeys EXCEPT ![next_user] =
            MonkeyStart(_create_monkey(users[next_user]))]
    /\ _monkeys' = DictSet(_monkeys, users[next_user].username, next_user)
    /\ next_user' = next_user + 1
    /\ ret' = NoCall
    /\ UNCHANGED otherVars
    /\ UNCHANGED <<cfg, flock_pc, users, _start_time>>

\* After the loop: self._start_time = current_datetime().
FlockStartRecordsTime ==
    /\ flock_pc = "starting"
    /\ next_user > Len(users)
    /\ _start_time' = "recorded"
    /\ flock_pc' = "started"
    /\ ret' = NoCall
    /\ UNCHANGED otherVars
    /\ UNCHANGED <<cfg, users, next_user, _monkeys, monkeys>>

----------------------------------------------------------------------------
(* Flock.stop() and Monkey.stop().                                         *)

\* awaits = [m.stop() for m in self._monkeys.values()], handed to gather().
FlockStopGathers ==
    /\ flock_pc = "started"
    /\ monkeys' = [m \in MonkeyIds |->
            IF m \in DictValues(_monkeys)
            THEN [monkeys[m] EXCEPT !.stop_pc = "pending"] ELSE monkeys[m]]
    /\ flock_pc' = "stopping"
    /\ ret' = NoCall
    /\ UNCHANGED otherVars
    /\ UNCHANGED <<cfg, users, next_user, _monkeys, _start_time>>

\* Mutant of MonkeyStopClosesJob: the stops are awaited one after the other.
MonkeyStopClosesJob_Sequential(m) ==
    /\ monkeys[m].stop_pc = "pending"
    /\ \A k \in DictValues(_monkeys) : k < m => monkeys[k].stop_pc = "returned"
    /\ monkeys' = [monkeys EXCEPT
            ![m].cancel_requested = (monkeys[m].job # "done"),
            ![m].stop_pc = "waiting"]
    /\ ret' = NoCall
    /\ UNCHANGED otherVars
    /\ UNCHANGED <<cfg, flock_pc, users, next_user, _monkeys, _start_time>>

\* Monkey.stop() begins: self._job.close(timeout=0) cancels the task, unless
\* it is done already, and waits for it.
MonkeyStopClosesJob(m) ==
    /\ monkeys[m].stop_pc = "pending"
    /\ monkeys' = [monkeys EXCEPT
            ![m].cancel_requested = (monkeys[m].job # "done"),
            ![m].stop_pc = "waiting"]
    /\ ret' = NoCall
    /\ UNCHANGED otherVars
    /\ UNCHANGED <<cfg, flock_pc, users, next_user, _monkeys, _start_time>>

\* The task has ended: close() returns, and so does stop().
MonkeyStopJobExited(m) ==
    /\ monkeys[m].stop_pc = "waiting"
    /\ monkeys[m].job = "done"
    /\ monkeys' = [monkeys EXCEPT ![m].stop_pc = "returned"]
    /\ ret' = NoCall
    /\ UNCHANGED otherVars
    /\ UNCHANGED <<cfg, flock_pc, users, next_user, _monkeys, _start_time>>

\* Mutant of MonkeyStopTimesOut: the TimeoutError is not caught.
MonkeyStopTimesOut_Raises(m) ==
    /\ monkeys[m].stop_pc = "waiting"
    /\ monkeys[m].job # "done"
    /\ monkeys' = [monkeys EXCEPT ![m].stop_pc = "raised"]
    /\ ret' = NoCall
    /\ UNCHANGED otherVars
    /\ UNCHANGED <<cfg, flock_pc, users, next_user, _monkeys, _start_time>>

\* The wait of close() times out with the task still alive: stop() catches
\* the TimeoutError and returns.
MonkeyStopTimesOut(m) ==
    /\ monkeys[m].stop_pc = "waiting"
    /\ monkeys[m].job # "done"
    /\ monkeys' = [monkeys EXCEPT ![m].stop_pc = "returned"]
    /\ ret' = NoCall
    /\ UNCHANGED otherVars
    /\ UNCHANGED <<cfg, flock_pc, users, next_user, _monkeys, _start_time>>

\* gather() returns when every awaited stop() has returned.
FlockStopReturns ==
    /\ flock_pc = "stopping"
    /\ \A m \in DictValues(_monkeys) : monkeys[m].stop_pc = "returned"
    /\ flock_pc' = "stopped"
    /\ ret' = NoCall
    /\ UNCHANGED otherVars
    /\ UNCHANGED <<cfg, users, next_user, _monkeys, _start_time, monkeys>>

----------------------------------------------------------------------------
(* Flock.summary() and Flock.get_monkey().                                 *)

\* The for loop of summary() over a set of Monkeys: count, successes, failures.
RECURSIVE SummaryLoop(_)
SummaryLoop(ms) ==
    IF ms = {} THEN [count |-> 0, successes |-> 0, failures |-> 0]
    ELSE LET m == CHOOSE x \in ms : TRUE
             rest == SummaryLoop(ms \ {m})
         IN [count |-> rest.count + 1,
             successes |-> rest.successes + monkeys[m].business.success_count,
             failures |-> rest.failures + monkeys[m].business.failure_count]

\* Mutant of summary: the failures are summed from success_count.
summary_FailuresFromSuccesses ==
    LET t == SummaryLoop(DictValues(_monkeys))
    IN [call |-> "summary", start_time |-> _start_time, monkey_count |-> t.count,
        success_count |-> t.successes, failure_count |-> t.successes]

\* The FlockSummary that summary() returns.
summary ==
    LET t == SummaryLoop(DictValues(_monkeys))
    IN [call |-> "summary", start_time |-> _start_time, monkey_count |-> t.count,
        success_count |-> t.successes, failure_count |-> t.failures]

\* Mutant of get_monkey: a Monkey whose task has ended is reported not found.
get_monkey_DoneIsNotFound(name) ==
    IF name \in DOMAIN _monkeys /\ monkeys[_monkeys[name]].job # "done"
    THEN [call |-> "get_monkey", name |-> name, raised |-> "", monkey |-> {_monkeys[name]}]
    ELSE [call |-> "get_monkey", name |-> name,
          raised |-> "MonkeyNotFoundException", monkey |-> {}]

\* get_monkey(name): the Monkey stored under name, or MonkeyNotFoundException.
get_monkey(name) ==
    IF name \in DOMAIN _monkeys
    THEN [call |-> "get_monkey", name |-> name, raised |-> "", monkey |-> {_monkeys[name]}]
    ELSE [call |-> "get_monkey", name |-> name,
          raised |-> "MonkeyNotFoundException", monkey |-> {}]

\* A caller calls summary().
Summary ==
    /\ ret' = summary
    /\ UNCHANGED otherVars
    /\ UNCHANGED <<cfg, flock_pc, users, next_user, _monkeys, _start_time, monkeys>>

\* A caller calls get_monkey(name).
GetMonkey(name) ==
    /\ ret' = get_monkey(name)
    /\ UNCHANGED otherVars
    /\ UNCHANGED <<cfg, flock_pc, users, next_user, _monkeys, _start_time, monkeys>>

----------------------------------------------------------------------------
(* Specifications.                                                         *)

\* Flock.__init__: no Monkeys, no start time.
FlockInit ==
    /\ flock_pc = "init"
    /\ users = <<>>
    /\ next_user = 1
    /\ _monkeys = [k \in {} |-> 0]
    /\ _start_time = "None"
    /\ monkeys = [m \in MonkeyIds |-> NoMonkey]
    /\ ret = NoCall

\* Flock configurations of at most MaxMonkeys users, listed or generated.
Configs ==
    LET spec == CHOOSE s \in UserSpecs : s.uid_start # {} /\ s.gid_start = {}
    IN {[users |-> us, count |-> Len(us), user_spec |-> spec,
         business |-> b, restart |-> r] :
            us \in ExplicitUsers, b \in BusinessTypes, r \in BOOLEAN}
       \cup
       {[users |-> <<>>, count |-> n, user_spec |-> spec,
         business |-> b, restart |-> r] :
            n \in 1..MaxMonkeys, b \in BusinessTypes, r \in BOOLEAN}

\* Nothing but the Flock exists in the specifications of the Flock.
OtherInit ==
    /\ now = 0
    /\ stopwatches = <<>>
    /\ nb = [pc |-> "none"]
    /\ jc = [pc |-> "none"]
    /\ nr = [pc |-> "none"]

Init == cfg \in Configs /\ FlockInit /\ OtherInit

MonkeyNext(m) ==
    \/ RunnerStart(m)
    \/ RunnerCancelledUnstarted(m)
    \/ StartupOk(m)
    \/ StartupFails(m)
    \/ LabBusinessOk(m)
    \/ LabBusinessFails(m)
    \/ RunnerFinished(m)
    \/ RunnerLoops(m)
    \/ RunnerCancelledInRun(m)
    \/ RunnerCancelledInBackoff(m)
    \/ BackoffDone(m)
    \/ MonkeyStopClosesJob(m)
    \/ MonkeyStopJobExited(m)
    \/ MonkeyStopTimesOut(m)

Next ==
    \/ FlockStartCreatesUsers
    \/ FlockStartsMonkey
    \/ FlockStartRecordsTime
    \/ FlockStopGathers
    \/ FlockStopReturns
    \/ Summary
    \/ \E name \in LookupNames : GetMonkey(name)
    \/ \E m \in MonkeyIds : MonkeyNext(m)

Spec == Init /\ [][Next]_vars

\* The event loop runs what is ready: a timer that has expired (the sleep of
\* the backoff, the timeout of close()), a cancellation thrown into a task
\* that sleeps, a stop() that gather() has scheduled.  A Business inside
\* run() need not reach an await, so nothing is assumed of its steps.
Fairness ==
    \A m \in MonkeyIds :
        /\ WF_vars(BackoffDone(m))
        /\ WF_vars(RunnerCancelledInBackoff(m))
        /\ WF_vars(RunnerCancelledUnstarted(m))
        /\ WF_vars(MonkeyStopClosesJob(m))
        /\ WF_vars(MonkeyStopJobExited(m))
        /\ WF_vars(MonkeyStopTimesOut(m))

FairSpec == Spec /\ Fairness

\* Generated user specs of up to MaxGenCount users, and the one step of
\* Flock.start() that generates the users.
InitUsers ==
    /\ cfg \in {[users |-> <<>>, count |-> n, user_spec |-> spec,
                 business |-> "NotebookRunner", restart |-> TRUE] :
                    n \in 1..MaxGenCount, spec \in UserSpecs}
    /\ FlockInit
    /\ OtherInit

NextUsers == FlockStartCreatesUsers

SpecUsers == InitUsers /\ [][NextUsers]_vars

----------------------------------------------------------------------------
(* Properties.                                                             *)

\* The Monkeys that Flock._monkeys holds.
InFlock == DictValues(_monkeys)

\* Lexicographic order of two strings, as Python compares str.
RECURSIVE LexLess(_, _)
LexLess(s, t) ==
    IF s = <<>> THEN t # <<>>
    ELSE IF t = <<>> THEN FALSE
    ELSE IF Head(s) # Head(t) THEN Head(s) < Head(t)
    ELSE LexLess(Tail(s), Tail(t))

\* The number that a string of decimal digits denotes.
RECURSIVE DecimalValue(_)
DecimalValue(s) ==
    IF s = <<>> THEN 0
    ELSE 10 * DecimalValue(SubSeq(s, 1, Len(s) - 1)) + (s[Len(s)] - 48)

\* The sum of a counter over the Monkeys 1..n that the flock holds.
RECURSIVE SuccessesUpTo(_)
SuccessesUpTo(n) ==
    IF n = 0 THEN 0
    ELSE (IF n \in InFlock THEN monkeys[n].business.success_count ELSE 0)
         + SuccessesUpTo(n - 1)
RECURSIVE FailuresUpTo(_)
FailuresUpTo(n) ==
    IF n = 0 THEN 0
    ELSE (IF n \in InFlock THEN monkeys[n].business.failure_count ELSE 0)
         + FailuresUpTo(n - 1)

\* C1 (amended): a Monkey with restart enabled never ends its task unless a
\* stop was requested; after every failure it pauses and then runs the
\* Business again; failure_count never decreases, grows by one with every
\* failure of an execute pass and is left as it is by a failure of startup.
C1_RestartSupervision ==
    /\ [](\A m \in MonkeyIds :
            monkeys[m].restart /\ ~monkeys[m].cancel_requested
                => monkeys[m].job # "done")
    /\ [][\A m \in MonkeyIds :
            /\ (monkeys[m].restart /\ monkeys[m].job \in {"startup", "execute"}
                /\ monkeys'[m].state = "ERROR") => monkeys'[m].job = "backoff"
            /\ (monkeys[m].restart /\ monkeys[m].job = "backoff"
                /\ ~monkeys[m].cancel_requested /\ monkeys'[m].job # "backoff")
                    => monkeys'[m].job = "startup" /\ monkeys'[m].state = "RUNNING"
            /\ monkeys'[m].business.failure_count >= monkeys[m].business.failure_count
            /\ (monkeys[m].job = "execute" /\ monkeys'[m].job = "backoff")
                    => monkeys'[m].business.failure_count
                         = monkeys[m].business.failure_count + 1
            /\ (monkeys[m].job = "startup" /\ monkeys'[m].job = "backoff")
                    => monkeys'[m].business.failure_count
                         = monkeys[m].business.failure_count]_vars

\* C1 witness: with restart enabled and no stop requested, the Business is
\* running again after two counted failures.
C1_Witness ==
    \E m \in MonkeyIds :
        /\ monkeys[m].restart /\ ~monkeys[m].cancel_requested
        /\ monkeys[m].business.failure_count = 2
        /\ monkeys[m].business.success_count = 0
        /\ monkeys[m].job = "startup"

\* C1 as stated: with restart enabled the task never ends on its own, every
\* failure is followed by a pause and a new run, and failure_count never
\* decreases and grows with every failed run.
C1_Original ==
    /\ [](\A m \in MonkeyIds :
            monkeys[m].restart /\ ~monkeys[m].cancel_requested
                => monkeys[m].job # "done")
    /\ [][\A m \in MonkeyIds :
            /\ (monkeys[m].restart /\ monkeys[m].job = "backoff"
                /\ ~monkeys[m].cancel_requested /\ monkeys'[m].job # "backoff")
                    => monkeys'[m].job = "startup"
            /\ monkeys'[m].business.failure_count >= monkeys[m].business.failure_count
            /\ (monkeys[m].restart /\ monkeys[m].job \in {"startup", "execute"}
                /\ monkeys'[m].job = "backoff")
                    => monkeys'[m].business.failure_count
                         > monkeys[m].business.failure_count]_vars

\* C2: with restart disabled, after a Business failure the Business is never
\* run again (the pause can only be followed by the end of the task, which
\* is final), and the task eventually ends.
C2_NoRestartExits ==
    /\ [][\A m \in MonkeyIds :
            /\ (~monkeys[m].restart /\ monkeys[m].job = "backoff")
                    => monkeys'[m].job \in {"backoff", "done"}
            /\ monkeys[m].job = "done" => monkeys'[m].job = "done"]_vars
    /\ \A m \in MonkeyIds :
            (~monkeys[m].restart /\ monkeys[m].job = "backoff")
                ~> (monkeys[m].job = "done")

\* C2 witness: a Monkey without restart whose task ended by itself after its
\* first failure.
C2_Witness ==
    \E m \in MonkeyIds :
        /\ ~monkeys[m].restart /\ ~monkeys[m].cancel_requested
        /\ monkeys[m].business.failure_count = 1
        /\ monkeys[m].state = "ERROR"
        /\ monkeys[m].job = "done"

\* C3 as stated: when the cancellation reaches the task, inside the Business
\* or in the backoff pause, the state becomes STOPPED and the loop ends.
C3_CancelledIsStopped ==
    [][\A m \in MonkeyIds :
        (monkeys[m].cancel_requested
         /\ monkeys[m].job \in {"startup", "execute", "backoff"}
         /\ monkeys'[m].job # monkeys[m].job)
            => monkeys'[m].state = "STOPPED" /\ monkeys'[m].job = "done"]_vars

\* C4 as stated: after a clean return of the Business the state is FINISHED,
\* and the Business is run again if restart is set, else the loop ends.
C4_CleanReturn ==
    [][\A m \in MonkeyIds :
        monkeys[m].job = "finished" =>
            /\ monkeys[m].state = "FINISHED"
            /\ monkeys'[m].job # "finished" =>
                    monkeys'[m].job = (IF monkeys[m].restart THEN "startup" ELSE "done")]_vars

\* C5: Monkey.stop() requests the cancellation of a task that has not ended,
\* never raises, and always returns, also when the task never observes the
\* cancellation.
C5_StopReturns ==
    /\ [](\A m \in MonkeyIds : monkeys[m].stop_pc # "raised")
    /\ [][\A m \in MonkeyIds :
            (monkeys[m].stop_pc = "pending" /\ monkeys'[m].stop_pc # "pending"
             /\ monkeys[m].job # "done") => monkeys'[m].cancel_requested]_vars
    /\ \A m \in MonkeyIds :
            (monkeys[m].stop_pc \in {"pending", "waiting"})
                ~> (monkeys[m].stop_pc = "returned")

\* C5 witness: stop() has returned although the task is still inside the
\* Business and has not observed the cancellation.
C5_Witness ==
    \E m \in MonkeyIds :
        /\ monkeys[m].stop_pc = "returned"
        /\ monkeys[m].cancel_requested
        /\ monkeys[m].job \in {"startup", "execute"}

\* C6: while Flock.stop() runs, every stop() not yet begun can begin, whatever
\* the other stops are doing; Flock.stop() can return as soon as all have
\* returned, and has returned only when all have.
C6_ConcurrentStop ==
    /\ flock_pc = "stopping" =>
            \A m \in InFlock :
                monkeys[m].stop_pc = "pending" => ENABLED MonkeyStopClosesJob(m)
    /\ (flock_pc = "stopping" /\ \A m \in InFlock : monkeys[m].stop_pc = "returned")
            => ENABLED FlockStopReturns
    /\ flock_pc = "stopped" => \A m \in InFlock : monkeys[m].stop_pc = "returned"

\* C6 witness: two stops wait at the same time for tasks that are alive.
C6_Witness ==
    /\ flock_pc = "stopping"
    /\ \E m, k \in InFlock :
        /\ m # k
        /\ monkeys[m].stop_pc = "waiting" /\ monkeys[m].job # "done"
        /\ monkeys[k].stop_pc = "waiting" /\ monkeys[k].job # "done"

\* C7: summary() returns the number of Monkeys of the flock and the sums of
\* their Businesses' success and failure counts, and changes nothing.
C7_Summary ==
    /\ [](ret.call = "summary" =>
            /\ ret.monkey_count = Cardinality(InFlock)
            /\ ret.success_count = SuccessesUpTo(MaxMonkeys)
            /\ ret.failure_count = FailuresUpTo(MaxMonkeys))
    /\ [][ret'.call = "summary" =>
            UNCHANGED <<cfg, flock_pc, users, next_user, _monkeys, _start_time, monkeys>>]_vars

\* C7 witness: a summary of two Monkeys with successes and failures.
C7_Witness ==
    /\ ret.call = "summary"
    /\ ret.monkey_count = 2
    /\ ret.success_count = 1
    /\ ret.failure_count = 1

\* C8: get_monkey(name) returns the Monkey of the flock whose user has that
\* username, raises MonkeyNotFoundException exactly when the flock has no
\* such Monkey, and changes nothing.
C8_GetMonkey ==
    /\ [](ret.call = "get_monkey" =>
            /\ (ret.raised = "MonkeyNotFoundException")
                <=> ~(\E m \in InFlock : monkeys[m].user.username = ret.name)
            /\ ret.raised \in {"", "MonkeyNotFoundException"}
            /\ ret.raised = "" =>
                    \E m \in InFlock :
                        ret.monkey = {m} /\ monkeys[m].user.username = ret.name
            /\ ret.raised # "" => ret.monkey = {})
    /\ [][ret'.call = "get_monkey" =>
            UNCHANGED <<cfg, flock_pc, users, next_user, _monkeys, _start_time, monkeys>>]_vars

\* C8 witness: a lookup in a flock that holds Monkeys fails for a name that
\* none of them has.
C8_Witness ==
    /\ ret.call = "get_monkey"
    /\ ret.raised = "MonkeyNotFoundException"
    /\ InFlock # {}
    /\ flock_pc = "started"

\* C9: a generated spec of count N yields N users whose usernames are the
\* prefix followed by the index 1..N in decimal, zero padded to one common
\* width, strictly increasing and pairwise distinct, and whose uids, if a
\* start is given, are start + i - 1, that is exactly start..start+N-1.
C9_GeneratedUsers ==
    (flock_pc = "starting" /\ cfg.users = <<>>) =>
        LET N == cfg.count
            prefix == cfg.user_spec.username_prefix
            suffix(i) == SubSeq(users[i].username, Len(prefix) + 1,
                                Len(users[i].username))
        IN /\ Len(users) = N
           /\ \A i \in 1..N :
                /\ SubSeq(users[i].username, 1, Len(prefix)) = prefix
                /\ \A c \in 1..Len(suffix(i)) : suffix(i)[c] \in 48..57
                /\ DecimalValue(suffix(i)) = i
                /\ Len(users[i].username) = Len(users[1].username)
                /\ cfg.user_spec.uid_start = {} => users[i].uidnumber = {}
                /\ \A s \in cfg.user_spec.uid_start : users[i].uidnumber = {s + i - 1}
           /\ \A i \in 1..(N - 1) : LexLess(users[i].username, users[i + 1].username)
           /\ \A i, j \in 1..N : i # j => users[i].username # users[j].username
           /\ \A s \in cfg.user_spec.uid_start :
                UNION {users[i].uidnumber : i \in 1..N} = s..(s + N - 1)

\* C9 witness: a hundred generated users with uids; the seventh is "t007"
\* with uid 1006.
C9_Witness ==
    /\ flock_pc = "starting"
    /\ cfg.users = <<>>
    /\ cfg.count = 100
    /\ users[7].username = <<116, 48, 48, 55>>
    /\ users[7].uidnumber = {1006}

\* C10 as stated: once Flock.start() has completed the flock holds exactly
\* one Monkey per configured user, of the configured business type and
\* started, and the start time is recorded only after all were started.
C10_OneMonkeyPerUser ==
    /\ flock_pc \in {"started", "stopping", "stopped"} =>
            /\ Cardinality(InFlock) = Len(users)
            /\ \A i \in 1..Len(users) :
                \E m \in InFlock :
                    /\ monkeys[m].user = users[i]
                    /\ monkeys[m].business.type = cfg.business
                    /\ monkeys[m].job # "none"
    /\ _start_time = "recorded" =>
            \A i \in 1..Len(users) : monkeys[i].job # "none"

----------------------------------------------------------------------------
(* Stopwatch (timing.py): one timed event, linked to the one before it.    *)
(* A datetime is a number of clock ticks, a timedelta a difference of      *)
(* two; an Optional[datetime] is a set with at most one element and an     *)
(* Optional[Stopwatch] the index of the object, 0 for None.                *)

\* Latest reading of the clock.
MaxTime == 3
\* Most Stopwatch objects created.
MaxStopwatches == 3

\* The value of an Optional that is not None.
TheOne(S) == CHOOSE x \in S : TRUE

\* The flock plays no part in the specifications of the other components.
NoFlock ==
    /\ cfg = [users |-> <<User(<<97>>)>>, count |-> 1,
              user_spec |-> CHOOSE s \in UserSpecs : TRUE,
              business |-> "NotebookRunner", restart |-> FALSE]
    /\ flock_pc = "init"
    /\ users = <<>>
    /\ next_user = 1
    /\ _monkeys = [k \in {} |-> 0]
    /\ _start_time = "None"
    /\ monkeys = [m \in MonkeyIds |-> NoMonkey]

\* datetime.now(timezone.utc) is read from a clock that goes forward between
\* two steps of the program, by any amount.
Tick ==
    /\ now < MaxTime
    /\ now' = now + 1
    /\ ret' = NoCall
    /\ UNCHANGED <<flockVars, stopwatches, nb, jc, nr>>

\* Stopwatch.__post_init__: with a previous Stopwatch that has stopped, the
\* time since it stopped.
__post_init__(self) ==
    IF self.previous # 0 /\ stopwatches[self.previous].stop_time # {}
    THEN [self EXCEPT !.elapsed_since_previous_stop =
              self.start_time - TheOne(stopwatches[self.previous].stop_time)]
    ELSE self

\* Stopwatch.start(event, annotation, previous): a Stopwatch started now,
\* with the defaults of the dataclass for the fields that init leaves out.
start(event, previous) ==
    __post_init__([start_time |-> now,
                   stop_time |-> {},
                   previous |-> previous,
                   elapsed |-> 0,
                   elapsed_since_previous_stop |-> 0,
                   event |-> event])

\* Mutant of stop: a second stop() moves the stop time instead of failing.
stop_Restops(self) ==
    [raised |-> "none",
     self |-> [self EXCEPT !.stop_time = {now},
                           !.elapsed = now - self.start_time]]

\* Mutant of stop: elapsed is measured from the previous Stopwatch's start.
stop_ElapsedFromPrevious(self) ==
    IF self.stop_time # {}
    THEN [raised |-> "StopwatchAlreadyStopped", self |-> self]
    ELSE [raised |-> "none",
          self |-> [self EXCEPT
              !.stop_time = {now},
              !.elapsed = now - (IF self.previous # 0
                                 THEN stopwatches[self.previous].start_time
                                 ELSE self.start_time)]]

\* Stopwatch.stop(): what it raises and the Stopwatch it leaves.  A datetime
\* is always true, so `if self.stop_time` asks whether it is not None.
stop(self) ==
    IF self.stop_time # {}
    THEN [raised |-> "StopwatchAlreadyStopped", self |-> self]
    ELSE [raised |-> "none",
          self |-> [self EXCEPT !.stop_time = {now},
                                !.elapsed = now - self.start_time]]

\* A caller starts a Stopwatch, after None or after any Stopwatch it holds.
StopwatchStart(previous) ==
    /\ Len(stopwatches) < MaxStopwatches
    /\ stopwatches' = Append(stopwatches, start("event", previous))
    /\ ret' = [call |-> "start", sw |-> Len(stopwatches) + 1]
    /\ UNCHANGED <<flockVars, now, nb, jc, nr>>

\* A caller stops a Stopwatch it holds, stopped already or not.
StopwatchStop(i) ==
    /\ stopwatches' = [stopwatches EXCEPT ![i] = stop(@).self]
    /\ ret' = [call |-> "stop", sw |-> i, raised |-> stop(stopwatches[i]).raised]
    /\ UNCHANGED <<flockVars, now, nb, jc, nr>>

InitTiming ==
    /\ NoFlock
    /\ ret = NoCall
    /\ now = 0
    /\ stopwatches = <<>>
    /\ nb = [pc |-> "none"]
    /\ jc = [pc |-> "none"]
    /\ nr = [pc |-> "none"]

NextTiming ==
    \/ Tick
    \/ \E previous \in 0..Len(stopwatches) : StopwatchStart(previous)
    \/ \E i \in 1..Len(stopwatches) : StopwatchStop(i)

SpecTiming == InitTiming /\ [][NextTiming]_vars

----------------------------------------------------------------------------
(* Properties of the Stopwatch.                                            *)

\* C11: stop() of a Stopwatch that has stopped raises StopwatchAlreadyStopped
\* and leaves its stop time and its elapsed time as they were.
C11_StopTwiceFails ==
    [][\A i \in 1..Len(stopwatches) :
          (/\ ret'.call = "stop"
           /\ ret'.sw = i
           /\ stopwatches[i].stop_time # {})
          => /\ ret'.raised = "StopwatchAlreadyStopped"
             /\ stopwatches'[i].stop_time = stopwatches[i].stop_time
             /\ stopwatches'[i].elapsed = stopwatches[i].elapsed]_vars

\* A second stop() has been made, later than the first.
C11_Witness ==
    /\ ret.call = "stop"
    /\ ret.raised = "StopwatchAlreadyStopped"
    /\ now > TheOne(stopwatches[ret.sw].stop_time)

\* C12: a stopped Stopwatch has elapsed = stop_time - start_time and a stop
\* time that is not before its start time; a Stopwatch started with no
\* previous one has elapsed_since_previous_stop = 0.
C12_Elapsed ==
    \A i \in 1..Len(stopwatches) :
        LET sw == stopwatches[i]
        IN /\ sw.stop_time # {} =>
                /\ sw.elapsed = TheOne(sw.stop_time) - sw.start_time
                /\ TheOne(sw.stop_time) >= sw.start_time
           /\ sw.previous = 0 => sw.elapsed_since_previous_stop = 0

\* A Stopwatch with a previous one that started earlier has run for a while
\* and stopped, and so has one without a previous one.
C12_Witness ==
    \E i, j \in 1..Len(stopwatches) :
        /\ stopwatches[i].previous = j
        /\ stopwatches[j].start_time < stopwatches[i].start_time
        /\ stopwatches[i].elapsed > 0
        /\ stopwatches[i].elapsed_since_previous_stop > 0
        /\ stopwatches[j].previous = 0
        /\ stopwatches[j].stop_time # {}

----------------------------------------------------------------------------
(* NubladoBusiness (services/business/nublado.py) running the fixed-code   *)
(* strategy (services/business/jupyterpythonloop.py).  nb.pc is the call   *)
(* the business makes next and nb.phase the part of run() it is in.  The   *)
(* timings chain is the list of the records started so far, each after the *)
(* one before it; seconds are clock ticks.                                 *)

\* Most calls of run() on the Business (the Monkey may run it again).
MaxRuns == 1
\* Most execute passes over all the runs.
MaxExecutes == 1
\* Most progress messages of one provisioning.
MaxMessages == 2
\* Most polls of one delete_lab.
MaxPolls == 2

\* The options of the business: always-deprovision or not, with a settle
\* pause that is part of the spawn timeout.
NubladoOptions ==
    {[delete_lab |-> d, spawn_settle_time |-> t[1], spawn_timeout |-> t[2],
      max_executions |-> 2, delete_timeout |-> 1] :
        d \in BOOLEAN, t \in {<<0, 2>>, <<2, 4>>}}

\* The texts of progress messages.
ProgressTexts == {"Server requested", "Spawning server..."}

NoError == [type |-> "none"]

\* The Business before its first run(); is_lab_stopped is what the last call
\* of self._client.is_lab_stopped() returned, if there was one.
NewBusiness(options) ==
    [pc |-> "created", phase |-> "created", options |-> options,
     stopping |-> FALSE, timings |-> <<>>, sw |-> 0, timeout |-> 0,
     watch_start |-> 0, log_messages |-> <<>>, progress |-> "none",
     progress_exc |-> {},
     poll_start |-> 0, polls |-> 0, is_lab_stopped |-> {},
     sessions |-> 0, count |-> 0, runs |-> 0, executes |-> 0,
     success_count |-> 0, failure_count |-> 0, error |-> NoError]

\* self.timings.start(event): a record opened at the time `at`, chained
\* after the last record of the business.
timings_start(b, event, at) ==
    [b EXCEPT !.timings = Append(@, [event |-> event, start_time |-> at,
                                     stop_time |-> {}, failed |-> FALSE])]

\* The end of a `with` block on record i, or stopwatch.stop() of it.
with_exit(b, i, at, failed) ==
    [b EXCEPT !.timings[i].stop_time = {at}, !.timings[i].failed = failed]

\* `with self.timings.start(event): await call()`, the call ending at `at`.
timed(b, event, at, failed) ==
    with_exit(timings_start(b, event, now), Len(b.timings) + 1, at, failed)

\* sw.elapsed at the time `at`: the time the record ran, or has run so far
\* if it is still open.
elapsed(sw, at) ==
    IF sw.stop_time # {} THEN TheOne(sw.stop_time) - sw.start_time
    ELSE at - sw.start_time

\* An exception leaves startup() or execute(): run() counts a failed
\* execute, runs shutdown() and raises; one that leaves shutdown() is logged.
Raise(b, e) ==
    IF b.phase = "shutdown" THEN [b EXCEPT !.pc = "ended"]
    ELSE [b EXCEPT !.pc = "delete_lab", !.phase = "shutdown", !.error = e,
                   !.failure_count = IF b.phase = "execute" THEN @ + 1 ELSE @]

\* execute() returns: run() counts a success, idles and loops.
execute_returns(b) ==
    [b EXCEPT !.pc = "loop", !.success_count = @ + 1]

\* The Monkey calls run(): startup() begins with hub_login().
BusinessRun ==
    /\ nb.pc \in {"created", "ended"}
    /\ nb.runs < MaxRuns
    /\ ~nb.stopping
    /\ nb' = [nb EXCEPT !.pc = "hub_login", !.phase = "startup",
                        !.runs = @ + 1, !.error = NoError]
    /\ ret' = NoCall
    /\ UNCHANGED <<flockVars, now, stopwatches, jc, nr>>

\* Business.stop(): the business is asked to stop; every pause it is in or
\* makes from now on returns False.
StopRequested ==
    /\ nb.pc \notin {"created", "ended"}
    /\ ~nb.stopping
    /\ nb' = [nb EXCEPT !.stopping = TRUE]
    /\ ret' = NoCall
    /\ UNCHANGED <<flockVars, now, stopwatches, jc, nr>>

\* hub_login(): auth_to_hub() under the hub_login timer. startup() goes on
\* to look for a lab, execute() to delete the lab.
HubLogin(ok) ==
    /\ nb.pc = "hub_login"
    /\ LET b == timed(nb, "hub_login", now, ~ok)
       IN nb' = IF ~ok THEN Raise(b, [type |-> "Exception"])
                ELSE IF b.phase = "startup"
                     THEN [b EXCEPT !.pc = "startup_check"]
                     ELSE [b EXCEPT !.pc = "delete_lab"]
    /\ ret' = NoCall
    /\ UNCHANGED <<flockVars, now, stopwatches, jc, nr>>

\* startup(), after the login: a lab that is not stopped is deleted.
StartupChecksLab(stopped) ==
    /\ nb.pc = "startup_check"
    /\ nb' = [nb EXCEPT !.pc = IF stopped THEN "loop" ELSE "delete_lab",
                        !.is_lab_stopped = {stopped}]
    /\ ret' = NoCall
    /\ UNCHANGED <<flockVars, now, stopwatches, jc, nr>>

\* The loop of run(): leave if asked to stop, else execute() once more.
RunLoop ==
    /\ nb.pc = "loop"
    /\ nb.stopping \/ nb.executes < MaxExecutes
    /\ nb' = IF nb.stopping
             THEN [nb EXCEPT !.pc = "delete_lab", !.phase = "shutdown"]
             ELSE [nb EXCEPT !.pc = "execute", !.phase = "execute",
                             !.executes = @ + 1]
    /\ ret' = NoCall
    /\ UNCHANGED <<flockVars, now, stopwatches, jc, nr>>

\* Mutant of ExecuteChecksLab: a lab is spawned for every pass.
ExecuteChecksLab_AlwaysSpawns(stopped) ==
    /\ nb.pc = "execute"
    /\ nb' = IF nb.options.delete_lab
             THEN [nb EXCEPT !.pc = "spawn_lab"]
             ELSE [nb EXCEPT !.pc = "spawn_lab", !.is_lab_stopped = {stopped}]
    /\ ret' = NoCall
    /\ UNCHANGED <<flockVars, now, stopwatches, jc, nr>>

\* execute(): spawn a lab if labs are deleted after use or none is running.
ExecuteChecksLab(stopped) ==
    /\ nb.pc = "execute"
    /\ nb' = IF nb.options.delete_lab
             THEN [nb EXCEPT !.pc = "spawn_lab"]
             ELSE [nb EXCEPT !.pc = IF stopped THEN "spawn_lab"
                                                ELSE "lab_login",
                             !.is_lab_stopped = {stopped}]
    /\ ret' = NoCall
    /\ UNCHANGED <<flockVars, now, stopwatches, jc, nr>>

\* spawn_lab(), to the request: the spawn_lab timer starts, then the client
\* posts the spawn form, which takes time.
SpawnLabPosts(ok) ==
    /\ nb.pc = "spawn_lab"
    /\ now' = now + 1
    /\ LET b == [timings_start(nb, "spawn_lab", now) EXCEPT
                    !.sw = Len(nb.timings) + 1,
                    !.timeout = nb.options.spawn_timeout,
                    !.log_messages = <<>>, !.progress = "none",
                    !.progress_exc = {}]
       IN nb' = IF ok THEN [b EXCEPT !.pc = "spawn_settle"]
                ELSE Raise(with_exit(b, b.sw, now', TRUE), [type |-> "Exception"])
    /\ ret' = NoCall
    /\ UNCHANGED <<flockVars, stopwatches, jc, nr>>

\* spawn_lab(), the settle pause: cut short by a stop, spawn_lab returns
\* False and execute() returns; else the pause is taken off the timeout and
\* the progress of the spawn is watched.
SpawnLabSettles ==
    /\ nb.pc = "spawn_settle"
    /\ IF nb.stopping
       THEN /\ nb' = execute_returns(with_exit(nb, nb.sw, now, FALSE))
            /\ now' = now
       ELSE /\ now' = now + nb.options.spawn_settle_time
            /\ nb' = [nb EXCEPT !.pc = "spawn_watch",
                                !.timeout = @ - nb.options.spawn_settle_time,
                                !.watch_start = now',
                                !.progress = "watching"]
    /\ ret' = NoCall
    /\ UNCHANGED <<flockVars, stopwatches, jc, nr>>

\* spawn_lab(), a progress message that comes d seconds later, inside the
\* timeout that iter_with_timeout was given: it is logged, and a ready one
\* ends spawn_lab with True.
SpawnLabReceives(message, ready, d) ==
    /\ nb.pc = "spawn_watch"
    /\ ~nb.stopping
    /\ Len(nb.log_messages) < MaxMessages
    /\ (now + d) - nb.watch_start < nb.timeout
    /\ now' = now + d
    /\ LET b == [nb EXCEPT !.log_messages = Append(@, message)]
       IN nb' = IF ready
                THEN [with_exit(b, b.sw, now', FALSE) EXCEPT
                         !.pc = "lab_login", !.progress = "ready"]
                ELSE b
    /\ ret' = NoCall
    /\ UNCHANGED <<flockVars, stopwatches, jc, nr>>

\* Mutant of spawn_fallthrough: a stop request is not looked at.
spawn_fallthrough_IgnoresStop(b, at) ==
    LET failed == with_exit(b, b.sw, at, TRUE)
    IN IF elapsed(b.timings[b.sw], at) > b.timeout
       THEN Raise(failed, [type |-> "JupyterTimeoutError",
                           elapsed |-> elapsed(b.timings[b.sw], at),
                           log |-> b.log_messages])
       ELSE Raise(failed, [type |-> "JupyterSpawnError",
                           log |-> b.log_messages])

\* Mutant of spawn_fallthrough: the time is measured from the first look at
\* the progress, as the timeout of iter_with_timeout is.
spawn_fallthrough_SinceWatch(b, at) ==
    LET failed == with_exit(b, b.sw, at, TRUE)
    IN IF b.stopping THEN execute_returns(with_exit(b, b.sw, at, FALSE))
       ELSE IF at - b.watch_start > b.timeout
            THEN Raise(failed, [type |-> "JupyterTimeoutError",
                                elapsed |-> elapsed(b.timings[b.sw], at),
                                log |-> b.log_messages])
            ELSE Raise(failed, [type |-> "JupyterSpawnError",
                                log |-> b.log_messages])

\* spawn_lab(), after the loop over the progress: False if the business is
\* stopping, JupyterTimeoutError with the elapsed seconds if the spawn_lab
\* timer has run for more than the timeout, JupyterSpawnError otherwise,
\* both with the log.
spawn_fallthrough(b, at) ==
    LET failed == with_exit(b, b.sw, at, TRUE)
    IN IF b.stopping THEN execute_returns(with_exit(b, b.sw, at, FALSE))
       ELSE IF elapsed(b.timings[b.sw], at) > b.timeout
            THEN Raise(failed, [type |-> "JupyterTimeoutError",
                                elapsed |-> elapsed(b.timings[b.sw], at),
                                log |-> b.log_messages])
            ELSE Raise(failed, [type |-> "JupyterSpawnError",
                                log |-> b.log_messages])

\* spawn_lab(), the progress ends with no ready message: the stream closes
\* d seconds later inside the timeout, or iter_with_timeout ends it when
\* the timeout has passed or the business is asked to stop.
SpawnLabProgressEnds(how, d) ==
    /\ nb.pc = "spawn_watch"
    /\ \/ how = "closed" /\ (now + d) - nb.watch_start < nb.timeout
                         /\ now' = now + d
       \/ how = "timeout" /\ d = 0
                          /\ now' = IF nb.watch_start + nb.timeout > now
                                    THEN nb.watch_start + nb.timeout ELSE now
       \/ how = "stopped" /\ d = 0 /\ nb.stopping /\ now' = now
    /\ nb' = spawn_fallthrough([nb EXCEPT !.progress = how], now')
    /\ ret' = NoCall
    /\ UNCHANGED <<flockVars, stopwatches, jc, nr>>

\* Mutant of SpawnLabProgressRaises: every exception of the progress becomes
\* JupyterSpawnError.
SpawnLabProgressRaises_AllSpawnErrors(exc) ==
    /\ nb.pc = "spawn_watch"
    /\ LET b == with_exit([nb EXCEPT !.progress = "raised",
                                     !.progress_exc = {exc}],
                          nb.sw, now, TRUE)
       IN nb' = Raise(b, [type |-> "JupyterSpawnError",
                          log |-> b.log_messages])
    /\ ret' = NoCall
    /\ UNCHANGED <<flockVars, now, stopwatches, jc, nr>>

\* spawn_lab(), the progress raises: TimeoutError and any other exception
\* become JupyterSpawnError with the log, a SlackException goes through,
\* as the error the client raises for a redirect loop does. progress_exc is
\* the exception the progress raised.
SpawnLabProgressRaises(exc) ==
    /\ nb.pc = "spawn_watch"
    /\ LET b == with_exit([nb EXCEPT !.progress = "raised",
                                     !.progress_exc = {exc}],
                          nb.sw, now, TRUE)
       IN nb' = IF exc = "SlackException" THEN Raise(b, [type |-> exc])
                ELSE Raise(b, [type |-> "JupyterSpawnError",
                               log |-> b.log_messages])
    /\ ret' = NoCall
    /\ UNCHANGED <<flockVars, now, stopwatches, jc, nr>>

\* The lab session is released when its block is left by an exception.
release(b) == [b EXCEPT !.sessions = @ - 1]

\* lab_login(): auth_to_lab() under the lab_login timer, before the session
\* is opened and again, inside its block, before it is deleted.
LabLogin(ok) ==
    /\ nb.pc \in {"lab_login", "relogin"}
    /\ LET b == timed(nb, "lab_login", now, ~ok)
       IN nb' = IF ok
                THEN [b EXCEPT !.pc = IF nb.pc = "lab_login"
                                      THEN "create_session"
                                      ELSE "delete_session"]
                ELSE IF nb.pc = "relogin"
                     THEN Raise(release(b), [type |-> "Exception"])
                     ELSE Raise(b, [type |-> "Exception"])
    /\ ret' = NoCall
    /\ UNCHANGED <<flockVars, now, stopwatches, jc, nr>>

\* open_session(), to the open session: the create_session record starts,
\* and is stopped by the first statement inside the block, once the client
\* has opened the session.
OpenSessionCreates(ok) ==
    /\ nb.pc = "create_session"
    /\ LET b == timings_start(nb, "create_session", now)
       IN nb' = IF ok
                THEN [with_exit(b, Len(b.timings), now, FALSE) EXCEPT
                         !.pc = "execute_setup", !.sessions = @ + 1]
                ELSE Raise(b, [type |-> "Exception"])
    /\ ret' = NoCall
    /\ UNCHANGED <<flockVars, now, stopwatches, jc, nr>>

\* open_session(), setup_session() under the execute_setup timer; then the
\* session is yielded to execute_code().
SetupSession(ok) ==
    /\ nb.pc = "execute_setup"
    /\ LET b == timed(nb, "execute_setup", now, ~ok)
       IN nb' = IF ok THEN [b EXCEPT !.pc = "execute_code", !.count = 0]
                ELSE Raise(release(b), [type |-> "CodeExecutionError"])
    /\ ret' = NoCall
    /\ UNCHANGED <<flockVars, now, stopwatches, jc, nr>>

\* JupyterPythonLoop.execute_code(), one run of the code under the
\* execute_code timer.
ExecuteCode(ok) ==
    /\ nb.pc = "execute_code"
    /\ LET b == timed(nb, "execute_code", now, ~ok)
       IN nb' = IF ok THEN [b EXCEPT !.pc = "execution_idle"]
                ELSE Raise(release(b), [type |-> "CodeExecutionError"])
    /\ ret' = NoCall
    /\ UNCHANGED <<flockVars, now, stopwatches, jc, nr>>

\* Mutant of ExecutionIdle: the result of the pause is not looked at.
ExecutionIdle_IgnoresPause ==
    /\ nb.pc = "execution_idle"
    /\ LET b == timed(nb, "execution_idle", now, FALSE)
       IN nb' = IF nb.count + 1 < nb.options.max_executions
                THEN [b EXCEPT !.pc = "execute_code", !.count = @ + 1]
                ELSE [b EXCEPT !.pc = "relogin", !.count = @ + 1]
    /\ ret' = NoCall
    /\ UNCHANGED <<flockVars, now, stopwatches, jc, nr>>

\* execution_idle(): the pause between two runs of the code, under the
\* execution_idle timer; a stop, or the last run, ends execute_code().
ExecutionIdle ==
    /\ nb.pc = "execution_idle"
    /\ LET b == timed(nb, "execution_idle", now, FALSE)
       IN nb' = IF ~nb.stopping /\ nb.count + 1 < nb.options.max_executions
                THEN [b EXCEPT !.pc = "execute_code", !.count = @ + 1]
                ELSE [b EXCEPT !.pc = "relogin", !.count = @ + 1]
    /\ ret' = NoCall
    /\ UNCHANGED <<flockVars, now, stopwatches, jc, nr>>

\* Mutant of OpenSessionDeletes: execute() returns once the session is
\* deleted, whatever options.delete_lab says.
OpenSessionDeletes_KeepsLab(ok) ==
    /\ nb.pc = "delete_session"
    /\ LET b == timings_start(nb, "delete_sesion", now)
           stopped == release(with_exit(b, Len(b.timings), now, FALSE))
       IN nb' = IF ~ok THEN Raise(b, [type |-> "Exception"])
                ELSE execute_returns(stopped)
    /\ ret' = NoCall
    /\ UNCHANGED <<flockVars, now, stopwatches, jc, nr>>

\* open_session(), after the yield and the login: the delete_sesion record
\* starts, the block is left and the client deletes the session, and the
\* statement after the block stops the record.  execute() then deletes the
\* lab, after a hub login, or returns.
OpenSessionDeletes(ok) ==
    /\ nb.pc = "delete_session"
    /\ LET b == timings_start(nb, "delete_sesion", now)
           stopped == release(with_exit(b, Len(b.timings), now, FALSE))
       IN nb' = IF ~ok THEN Raise(b, [type |-> "Exception"])
                ELSE IF nb.options.delete_lab
                     THEN [stopped EXCEPT !.pc = "hub_login"]
                     ELSE execute_returns(stopped)
    /\ ret' = NoCall
    /\ UNCHANGED <<flockVars, now, stopwatches, jc, nr>>

\* delete_lab() returns to startup(), to execute() or to shutdown().
delete_lab_returns(b) ==
    IF b.phase = "startup" THEN [b EXCEPT !.pc = "loop"]
    ELSE IF b.phase = "execute" THEN execute_returns(b)
    ELSE [b EXCEPT !.pc = "ended"]

\* delete_lab() raises: startup() goes on after a JupyterTimeoutError.
delete_lab_raises(b, e) ==
    IF b.phase = "startup" /\ e.type = "JupyterTimeoutError"
    THEN [b EXCEPT !.pc = "loop"]
    ELSE Raise(b, e)

\* delete_lab(), to the loop: the delete_lab timer starts and the client
\* stops the lab; a business that is stopping waits for nothing.
DeleteLabStops(ok) ==
    /\ nb.pc = "delete_lab"
    /\ LET b == [timings_start(nb, "delete_lab", now) EXCEPT
                    !.sw = Len(nb.timings) + 1]
       IN nb' = IF ~ok
                THEN delete_lab_raises(with_exit(b, b.sw, now, TRUE),
                                       [type |-> "Exception"])
                ELSE IF b.stopping
                     THEN delete_lab_returns(with_exit(b, b.sw, now, FALSE))
                     ELSE [b EXCEPT !.pc = "delete_poll",
                                    !.poll_start = now, !.polls = 0]
    /\ ret' = NoCall
    /\ UNCHANGED <<flockVars, now, stopwatches, jc, nr>>

\* Mutant of DeleteLabPolls: after the timeout no second look is taken into
\* account.
DeleteLabPolls_NoSecondLook(stopped, again) ==
    /\ nb.pc = "delete_poll"
    /\ LET late == now - nb.poll_start > nb.options.delete_timeout
           seen == [nb EXCEPT !.is_lab_stopped =
                                 {IF ~stopped /\ late THEN again ELSE stopped}]
           closed == with_exit(seen, nb.sw, now, FALSE)
       IN IF stopped
          THEN nb' = delete_lab_returns(closed) /\ now' = now
          ELSE IF late
          THEN /\ nb' = delete_lab_raises(with_exit(seen, nb.sw, now, TRUE),
                                          [type |-> "JupyterTimeoutError"])
               /\ now' = now
          ELSE IF nb.stopping
          THEN nb' = delete_lab_returns(closed) /\ now' = now
          ELSE /\ nb.polls < MaxPolls
               /\ nb' = [seen EXCEPT !.polls = @ + 1]
               /\ now' = now + 2
    /\ ret' = NoCall
    /\ UNCHANGED <<flockVars, stopwatches, jc, nr>>

\* delete_lab(), one turn of the loop: done when the lab is stopped; after
\* more than delete_timeout seconds a second look decides on
\* JupyterTimeoutError; else a pause of 2 seconds, that a stop cuts short.
DeleteLabPolls(stopped, again) ==
    /\ nb.pc = "delete_poll"
    /\ LET late == now - nb.poll_start > nb.options.delete_timeout
           seen == [nb EXCEPT !.is_lab_stopped =
                                 {IF ~stopped /\ late THEN again ELSE stopped}]
           closed == with_exit(seen, nb.sw, now, FALSE)
       IN IF stopped
          THEN nb' = delete_lab_returns(closed) /\ now' = now
          ELSE IF late /\ ~again
          THEN /\ nb' = delete_lab_raises(with_exit(seen, nb.sw, now, TRUE),
                                          [type |-> "JupyterTimeoutError"])
               /\ now' = now
          ELSE IF nb.stopping
          THEN nb' = delete_lab_returns(closed) /\ now' = now
          ELSE /\ nb.polls < MaxPolls
               /\ nb' = [seen EXCEPT !.polls = @ + 1]
               /\ now' = now + 2
    /\ ret' = NoCall
    /\ UNCHANGED <<flockVars, stopwatches, jc, nr>>

InitNublado ==
    /\ NoFlock
    /\ ret = NoCall
    /\ now = 0
    /\ stopwatches = <<>>
    /\ nb \in {NewBusiness(options) : options \in NubladoOptions}
    /\ jc = [pc |-> "none"]
    /\ nr = [pc |-> "none"]

NextNublado ==
    \/ BusinessRun
    \/ StopRequested
    \/ \E ok \in BOOLEAN : HubLogin(ok)
    \/ \E stopped \in BOOLEAN : StartupChecksLab(stopped)
    \/ RunLoop
    \/ \E stopped \in BOOLEAN : ExecuteChecksLab(stopped)
    \/ \E ok \in BOOLEAN : SpawnLabPosts(ok)
    \/ SpawnLabSettles
    \/ \E message \in ProgressTexts, ready \in BOOLEAN, d \in 0..1 :
            SpawnLabReceives(message, ready, d)
    \/ \E how \in {"closed", "timeout", "stopped"}, d \in 0..1 :
            SpawnLabProgressEnds(how, d)
    \/ \E exc \in {"TimeoutError", "SlackException", "Exception"} :
            SpawnLabProgressRaises(exc)
    \/ \E ok \in BOOLEAN : LabLogin(ok)
    \/ \E ok \in BOOLEAN : OpenSessionCreates(ok)
    \/ \E ok \in BOOLEAN : SetupSession(ok)
    \/ \E ok \in BOOLEAN : ExecuteCode(ok)
    \/ ExecutionIdle
    \/ \E ok \in BOOLEAN : OpenSessionDeletes(ok)
    \/ \E ok \in BOOLEAN : DeleteLabStops(ok)
    \/ \E stopped, again \in BOOLEAN : DeleteLabPolls(stopped, again)

SpecNublado == InitNublado /\ [][NextNublado]_vars

----------------------------------------------------------------------------
(* Properties of the Nublado workflow.                                     *)

\* C13: at most one timing record of a Business is open at a time: no step
\* of the workflow starts a record while an earlier record of the chain has
\* not been stopped, whether steps fail or not.
C13_OneOpenRecord ==
    [][Len(nb'.timings) > Len(nb.timings)
       => \A i \in 1..Len(nb.timings) : nb.timings[i].stop_time # {}]_vars

----------------------------------------------------------------------------
(* JupyterClient (jupyterclient.py): one call of is_lab_running(),         *)
(* spawn_lab() or run_python().  A string is the sequence of its pieces:   *)
(* the fixed parts of a URL are one piece each and the characters of a     *)
(* username and of the text of a message are one piece each, so `in` and   *)
(* `==` on strings are computed on the pieces.                             *)

\* Most messages received by one run_python().
MaxReceived == 3

\* sub in s, for two strings.
Contains(sub, s) ==
    \E i \in 0..(Len(s) - Len(sub)) : SubSeq(s, i + 1, i + Len(sub)) = sub

\* The users a client is made for.
ClientUsers == {<<"a">>, <<"a", "b">>}

\* business_config.nb_url, and config.environment_url before it.
jupyter_base == <<"/nb/">>
jupyter_url == <<"https://e">> \o jupyter_base

\* The URLs that is_lab_running() and spawn_lab() compute for a user.
urls(username) ==
    [hub_url |-> jupyter_url \o <<"hub">>,
     spawn_url |-> jupyter_url \o <<"hub/spawn">>,
     spawn_pending_url |-> jupyter_url \o <<"hub/spawn-pending/">> \o username,
     lab_url |-> jupyter_url \o <<"user/">> \o username \o <<"/lab">>,
     redirect_url |-> jupyter_base \o <<"hub/spawn-pending/">> \o username]

\* Final URLs of a GET that follows redirects.
FinalUrls ==
    UNION {{urls(u).hub_url, urls(u).spawn_url, urls(u).spawn_pending_url,
            urls(u).spawn_pending_url \o <<"?next=">>, urls(u).lab_url,
            jupyter_url \o <<"hub/login">>} : u \in ClientUsers}

\* Responses to a GET: the final status and URL.
Responses == {[status |-> st, url |-> url] : st \in {200, 404, 500}, url \in FinalUrls}

\* Mutant of is_lab_running: the lab of any user counts as this user's lab.
is_lab_running_AnyLab(username, r) ==
    IF r.status # 200
    THEN [value |-> FALSE, log |-> <<"error">>]
    ELSE IF r.url = urls(username).spawn_url
            \/ Contains(urls(username).spawn_pending_url, r.url)
    THEN [value |-> FALSE, log |-> <<"info">>]
    ELSE IF \E u \in ClientUsers : r.url = urls(u).lab_url
    THEN [value |-> TRUE, log |-> <<"info">>]
    ELSE [value |-> FALSE, log |-> <<"warning", "info">>]

\* is_lab_running(), given the response to the GET of hub_url: what it
\* returns and the levels of what it logs.
is_lab_running(username, r) ==
    IF r.status # 200
    THEN [value |-> FALSE, log |-> <<"error">>]
    ELSE IF r.url = urls(username).spawn_url
            \/ Contains(urls(username).spawn_pending_url, r.url)
    THEN [value |-> FALSE, log |-> <<"info">>]
    ELSE IF r.url = urls(username).lab_url
    THEN [value |-> TRUE, log |-> <<"info">>]
    ELSE [value |-> FALSE, log |-> <<"warning", "info">>]

\* A call of is_lab_running().
IsLabRunning(username, r) ==
    /\ jc.pc = "idle"
    /\ jc' = [pc |-> "done", call |-> "is_lab_running", username |-> username,
              r |-> r, returned |-> is_lab_running(username, r)]
    /\ ret' = NoCall
    /\ UNCHANGED <<flockVars, now, stopwatches, nb, nr>>

\* spawn_lab() waits for the lab for max_poll_secs, a poll every
\* poll_interval seconds.
max_poll_secs == 900
poll_interval == 15

\* Responses to the POST of the spawn form, which follows no redirect: the
\* status and the Location header, if there is one.
PostResponses ==
    {[status |-> st, Location |-> loc] :
        st \in {200, 302, 303, 500},
        loc \in {{}} \cup {{l} : l \in UNION {{urls(u).redirect_url,
                            urls(u).spawn_pending_url,
                            urls(u).redirect_url \o <<"?next=">>,
                            jupyter_base \o <<"hub/spawn">>,
                            jupyter_base \o <<"hub/home">>} :
                                               u \in ClientUsers}}}

\* Mutant of spawn_lab_post: any 302 starts the wait for the lab.
spawn_lab_post_AnyTarget(username, r) ==
    IF r.status # 302 THEN "Spawn did not redirect"
    ELSE IF r.Location = {} THEN "KeyError"
    ELSE "none"

\* spawn_lab(), the checks of the response to the POST: the exception they
\* raise, if any.
spawn_lab_post(username, r) ==
    IF r.status # 302 THEN "Spawn did not redirect"
    ELSE IF r.Location = {} THEN "KeyError"
    ELSE IF ~Contains(urls(username).redirect_url, TheOne(r.Location))
    THEN "Spawn didn't redirect to pending"
    ELSE "none"

\* spawn_lab(), to the loop: a GET of spawn_url whose answer is not looked
\* at, then the POST and its checks.
SpawnLab(username, r) ==
    /\ jc.pc = "idle"
    /\ jc' = [pc |-> IF spawn_lab_post(username, r) = "none"
                     THEN "polling" ELSE "done",
              call |-> "spawn_lab", username |-> username, r |-> r,
              retries |-> max_poll_secs \div poll_interval, polls |-> 0,
              last |-> {},
              raised |-> spawn_lab_post(username, r)]
    /\ ret' = NoCall
    /\ UNCHANGED <<flockVars, now, stopwatches, nb, nr>>

\* Mutant of SpawnLabPolls: the status of the response is looked at before
\* its URL.
SpawnLabPolls_StatusFirst(r) ==
    /\ jc.pc = "polling"
    /\ jc.retries > 0
    /\ IF r.status >= 400
       THEN /\ jc' = [jc EXCEPT !.pc = "done", !.polls = @ + 1,
                                !.last = {r}, !.raised = "Error spawning"]
            /\ now' = now
       ELSE IF r.url = urls(jc.username).lab_url
       THEN /\ jc' = [jc EXCEPT !.pc = "done", !.polls = @ + 1,
                                !.last = {r}]
            /\ now' = now
       ELSE /\ jc' = [jc EXCEPT !.polls = @ + 1, !.retries = @ - 1,
                                !.last = {r}]
            /\ now' = now + poll_interval
    /\ ret' = NoCall
    /\ UNCHANGED <<flockVars, stopwatches, nb, nr>>

\* spawn_lab(), one turn of the loop: a GET of hub_url that ends at the
\* lab ends the call, an error status raises, anything else is followed by
\* a sleep and one retry less.  last is the response to the GET.
SpawnLabPolls(r) ==
    /\ jc.pc = "polling"
    /\ jc.retries > 0
    /\ IF r.url = urls(jc.username).lab_url
       THEN /\ jc' = [jc EXCEPT !.pc = "done", !.polls = @ + 1,
                                !.last = {r}]
            /\ now' = now
       ELSE IF r.status >= 400
       THEN /\ jc' = [jc EXCEPT !.pc = "done", !.polls = @ + 1,
                                !.last = {r}, !.raised = "Error spawning"]
            /\ now' = now
       ELSE /\ jc' = [jc EXCEPT !.polls = @ + 1, !.retries = @ - 1,
                                !.last = {r}]
            /\ now' = now + poll_interval
    /\ ret' = NoCall
    /\ UNCHANGED <<flockVars, stopwatches, nb, nr>>

\* spawn_lab(), after the loop: no retry is left.
SpawnLabGivesUp ==
    /\ jc.pc = "polling"
    /\ jc.retries <= 0
    /\ jc' = [jc EXCEPT !.pc = "done",
                        !.raised = "Giving up waiting for lab to spawn!"]
    /\ ret' = NoCall
    /\ UNCHANGED <<flockVars, now, stopwatches, nb, nr>>

\* The first index from i on of a character of line outside class.
RECURSIVE SkipWhile(_, _, _)
SkipWhile(line, i, class) ==
    IF i <= Len(line) /\ line[i] \in class
    THEN SkipWhile(line, i + 1, class)
    ELSE i

\* The index after the match of __ansi_reg_exp,
\* (\x9B|\x1B\[)[0-?]*[ -\/]*[@-~], that starts at i, 0 if there is none.
\* "ESC" is \x1B and "CSI" is \x9B; "[" is a final byte too, a newline is
\* in no class. The three classes are disjoint, so the greedy match never
\* backtracks.
MatchEnd(line, i) ==
    LET ParameterBytes == {"0", "3", ";"}
        IntermediateBytes == {" ", "/"}
        FinalBytes == {"[", "m", "E", "r"}
        p == IF line[i] = "CSI" THEN i + 1
             ELSE IF line[i] = "ESC" /\ i + 1 <= Len(line)
                                     /\ line[i + 1] = "["
             THEN i + 2 ELSE 0
        q == SkipWhile(line, SkipWhile(line, p, ParameterBytes),
                       IntermediateBytes)
    IN  IF p # 0 /\ q <= Len(line) /\ line[q] \in FinalBytes
        THEN q + 1 ELSE 0

\* __ansi_reg_exp.sub("", line) from index i on.
RECURSIVE sub(_, _)
sub(line, i) ==
    IF i > Len(line) THEN <<>>
    ELSE IF MatchEnd(line, i) = 0 THEN <<line[i]>> \o sub(line, i + 1)
    ELSE sub(line, MatchEnd(line, i))

\* JupyterClient._ansi_escape()
_ansi_escape(line) == sub(line, 1)

\* "".join(parts)
RECURSIVE join(_)
join(parts) ==
    IF parts = <<>> THEN <<>> ELSE Head(parts) \o join(Tail(parts))

\* What receive_json() can return: the messages of the kernel, for this
\* request or not (the msg_id of an earlier request is still the parent of
\* messages on the socket), the tracebacks with and without control
\* sequences, the last one with a sequence inside the beginning of another.
KernelMessages ==
    LET MsgIds == {1, 2}
        Tracebacks ==
            { <<>>,
              << <<"E", "r">>, <<"\n", "r">> >>,
              << <<"ESC", "[", "3", "m", "E">>, <<"ESC", "[", "0", "m">> >>,
              << <<"E", "ESC", "[", "3">>, <<";", "0", " ", "m", "r">> >>,
              << <<"ESC", "E", "CSI", "[", "[">> >>,
              << <<"ESC", "ESC", "[", "0", "m">>, <<"[", "3", "m", "E">> >> }
    IN  {[parent |-> p, msg_type |-> "stream", text |-> t] :
            p \in MsgIds, t \in {<<>>, <<"x">>, <<"y", "\n">>}}
        \cup {[parent |-> p, msg_type |-> "error", traceback |-> t] :
            p \in MsgIds, t \in Tracebacks}
        \cup {[parent |-> p, msg_type |-> "execute_reply", status |-> st] :
            p \in MsgIds, st \in {"ok", "error", "abort"}}
        \cup {[parent |-> p, msg_type |-> "status"] : p \in MsgIds}

\* Mutant of run_python_receive: the parent of a message is not looked at.
run_python_receive_AnyParent(c, r) ==
    LET got == [c EXCEPT !.received = Append(@, r)]
    IN  IF r.msg_type = "error"
        THEN [got EXCEPT !.pc = "done",
                  !.raised = {[type |-> "NotebookException",
                               msg |-> _ansi_escape(join(r.traceback))]}]
        ELSE IF r.msg_type = "stream"
        THEN [got EXCEPT !.result = @ \o r.text]
        ELSE IF r.msg_type = "execute_reply"
        THEN IF r.status = "ok"
             THEN [got EXCEPT !.pc = "done", !.returned = {got.result}]
             ELSE [got EXCEPT !.pc = "done",
                       !.raised = {[type |-> "NotebookException",
                                    msg |-> <<"Result status is ",
                                              r.status>>]}]
        ELSE got

\* Mutant of run_python_receive: every execute_reply returns the result.
run_python_receive_AnyStatus(c, r) ==
    LET got == [c EXCEPT !.received = Append(@, r)]
    IN  IF r.parent # c.msg_id THEN got
        ELSE IF r.msg_type = "error"
        THEN [got EXCEPT !.pc = "done",
                  !.raised = {[type |-> "NotebookException",
                               msg |-> _ansi_escape(join(r.traceback))]}]
        ELSE IF r.msg_type = "stream"
        THEN [got EXCEPT !.result = @ \o r.text]
        ELSE IF r.msg_type = "execute_reply"
        THEN [got EXCEPT !.pc = "done", !.returned = {got.result}]
        ELSE got

\* run_python(), the body of the loop for the message r; c.received is the
\* history of what receive_json() returned.
run_python_receive(c, r) ==
    LET got == [c EXCEPT !.received = Append(@, r)]
    IN  IF r.parent # c.msg_id THEN got
        ELSE IF r.msg_type = "error"
        THEN [got EXCEPT !.pc = "done",
                  !.raised = {[type |-> "NotebookException",
                               msg |-> _ansi_escape(join(r.traceback))]}]
        ELSE IF r.msg_type = "stream"
        THEN [got EXCEPT !.result = @ \o r.text]
        ELSE IF r.msg_type = "execute_reply"
        THEN IF r.status = "ok"
             THEN [got EXCEPT !.pc = "done", !.returned = {got.result}]
             ELSE [got EXCEPT !.pc = "done",
                       !.raised = {[type |-> "NotebookException",
                                    msg |-> <<"Result status is ",
                                              r.status>>]}]
        ELSE got

\* run_python(), to the loop: without a websocket it raises, with one it
\* sends the request under a new msg_id.
RunPython(websocket, msg_id) ==
    /\ jc.pc = "idle"
    /\ jc' = [pc |-> IF websocket THEN "receiving" ELSE "done",
              call |-> "run_python", msg_id |-> msg_id,
              received |-> <<>>, result |-> <<>>, returned |-> {},
              raised |-> IF websocket THEN {}
                         ELSE {[type |-> "Exception",
                                msg |-> <<"No WebSocket for code execution">>]}]
    /\ ret' = NoCall
    /\ UNCHANGED <<flockVars, now, stopwatches, nb, nr>>

\* run_python(), one turn of the loop.
RunPythonReceives(r) ==
    /\ jc.pc = "receiving"
    /\ Len(jc.received) < MaxReceived
    /\ jc' = run_python_receive(jc, r)
    /\ ret' = NoCall
    /\ UNCHANGED <<flockVars, now, stopwatches, nb, nr>>

\* delete_lab() gives the lab `count < delete_wait` seconds to go away.
delete_wait == 10

\* delete_lab(), the first look: without a running lab it returns at once.
DeleteLab(username, r) ==
    /\ jc.pc = "idle"
    /\ jc' = [pc |-> IF is_lab_running(username, r).value
                     THEN "deleting" ELSE "done",
              call |-> "delete_lab", username |-> username,
              running |-> is_lab_running(username, r).value,
              deletes |-> 0, count |-> 0, polls |-> 0,
              raised |-> "none", log |-> <<>>]
    /\ ret' = NoCall
    /\ UNCHANGED <<flockVars, now, stopwatches, nb, nr>>

\* delete_lab(), the DELETE of the user's server, with hub/home as Referer:
\* any status but 200, 202 and 204 raises.
DeleteLabDeletes(status) ==
    /\ jc.pc = "deleting"
    /\ jc' = IF status \in {200, 202, 204}
             THEN [jc EXCEPT !.pc = "delete_wait", !.deletes = @ + 1]
             ELSE [jc EXCEPT !.pc = "done", !.deletes = @ + 1,
                             !.raised = "Error deleting lab"]
    /\ ret' = NoCall
    /\ UNCHANGED <<flockVars, now, stopwatches, nb, nr>>

\* delete_lab(), the test of the while loop: is_lab_running() is asked
\* first; a lab still running with count < 10 is waited for one second more.
DeleteLabWaits(r) ==
    /\ jc.pc = "delete_wait"
    /\ IF is_lab_running(jc.username, r).value /\ jc.count < delete_wait
       THEN /\ jc' = [jc EXCEPT !.polls = @ + 1, !.count = @ + 1,
                                !.log = <<"info">>]
            /\ now' = now + 1
       ELSE /\ jc' = [jc EXCEPT !.polls = @ + 1, !.pc = "delete_check"]
            /\ now' = now
    /\ ret' = NoCall
    /\ UNCHANGED <<flockVars, stopwatches, nb, nr>>

\* delete_lab(), after the loop: one more look decides what is logged, and
\* the call returns.
DeleteLabChecks(r) ==
    /\ jc.pc = "delete_check"
    /\ jc' = [jc EXCEPT !.pc = "done", !.polls = @ + 1,
                        !.running = is_lab_running(jc.username, r).value,
                        !.log = IF is_lab_running(jc.username, r).value
                                THEN <<"warning">> ELSE <<"info">>]
    /\ ret' = NoCall
    /\ UNCHANGED <<flockVars, now, stopwatches, nb, nr>>

\* A JupyterClient and one call of one of its methods.
InitClient ==
    /\ NoFlock
    /\ ret = NoCall
    /\ now = 0
    /\ stopwatches = <<>>
    /\ nb = [pc |-> "none"]
    /\ nr = [pc |-> "none"]
    /\ jc = [pc |-> "idle", call |-> "none"]

NextClient ==
    \/ \E username \in ClientUsers, r \in Responses :
          IsLabRunning(username, r)
    \/ \E username \in ClientUsers, r \in PostResponses :
          SpawnLab(username, r)
    \/ \E r \in Responses : SpawnLabPolls(r)
    \/ SpawnLabGivesUp
    \/ \E websocket \in BOOLEAN, msg_id \in {1, 2} :
          RunPython(websocket, msg_id)
    \/ \E r \in KernelMessages : RunPythonReceives(r)
    \/ \E username \in ClientUsers, r \in Responses : DeleteLab(username, r)
    \/ \E status \in {200, 202, 204, 404, 500} : DeleteLabDeletes(status)
    \/ \E r \in Responses : DeleteLabWaits(r)
    \/ \E r \in Responses : DeleteLabChecks(r)

SpecClient == InitClient /\ [][NextClient]_vars

\* C14, as stated: is_lab_running() says "running" only when the GET of
\* hub_url ends at the user's lab URL, says "not running" when it ends at
\* the spawn or the spawn-pending URL, and says "not running" with a
\* warning logged for every other final URL.
C14_WarningForAnyOtherUrl ==
    jc.call = "is_lab_running" =>
        LET u == urls(jc.username)
            pending == jc.r.url = u.spawn_url
                       \/ Contains(u.spawn_pending_url, jc.r.url)
        IN  /\ jc.returned.value => jc.r.url = u.lab_url
            /\ pending => ~jc.returned.value
            /\ ~pending /\ jc.r.url # u.lab_url =>
                  /\ ~jc.returned.value
                  /\ \E i \in DOMAIN jc.returned.log :
                        jc.returned.log[i] = "warning"

\* C14, amended: is_lab_running() says "running" exactly when the GET of
\* hub_url is answered 200 and ends at the user's lab URL; it says "not
\* running" for the spawn and spawn-pending URLs and for every other final
\* URL, and for such another URL it logs a warning when the status is 200
\* and an error, with no warning, when it is not.
C14_LabRunning ==
    jc.call = "is_lab_running" =>
        LET u == urls(jc.username)
            pending == jc.r.url = u.spawn_url
                       \/ Contains(u.spawn_pending_url, jc.r.url)
            logged(level) == \E i \in DOMAIN jc.returned.log :
                                jc.returned.log[i] = level
        IN  /\ jc.returned.value
                  <=> (jc.r.status = 200 /\ jc.r.url = u.lab_url)
            /\ pending => ~jc.returned.value
            /\ ~pending /\ jc.r.url # u.lab_url =>
                  /\ ~jc.returned.value
                  /\ logged("warning") <=> jc.r.status = 200
                  /\ logged("error") <=> jc.r.status # 200

\* is_lab_running() returned for a 404 that ended at the login page.
C14_Witness ==
    /\ jc.call = "is_lab_running"
    /\ jc.pc = "done"
    /\ jc.r = [status |-> 404, url |-> jupyter_url \o <<"hub/login">>]
    /\ jc.returned = [value |-> FALSE, log |-> <<"error">>]

\* C15: spawn_lab() succeeds only if the POST of the spawn form is answered
\* by a 302 whose Location contains the spawn-pending path of the user; for
\* any other status or Location it raises, and it never polls for the lab.
C15_SpawnRedirect ==
    jc.call = "spawn_lab" =>
        LET redirected ==
                /\ jc.r.status = 302
                /\ \E target \in jc.r.Location :
                      Contains(urls(jc.username).redirect_url, target)
        IN  /\ jc.pc = "done" /\ jc.raised = "none" => redirected
            /\ ~redirected => /\ jc.pc = "done"
                              /\ jc.raised # "none"
                              /\ jc.polls = 0

\* spawn_lab() returned after a redirect to the pending page and two polls.
C15_Witness ==
    /\ jc.call = "spawn_lab"
    /\ jc.pc = "done"
    /\ jc.raised = "none"
    /\ jc.r.status = 302
    /\ jc.polls = 2

MaxCells == 3
\* Most entries of the directory of the cloned repository.
MaxEntries == 3
\* The depth of recursion at which the interpreter raises RecursionError,
\* scaled down.
MaxDepth == 2
\* Largest config.notebook_iterations.
MaxIterations == 3

\* NotebookRunner.__init__(), and run() called: startup() begins. shutdown
\* tells whether shutdown() has been called.  repo is what os.scandir()
\* yields for the directory of the repository, a path being the sequence of
\* its pieces; _notebook_iterator is the index of the entry the iterator
\* yields next and notebook the index of the current entry, 0 for None.
\* read is the list of the cells of the notebook as read_notebook() found
\* it, cells the indices of its code cells, and ran the cells executed in
\* this pass.
NewRunner(notebook_iterations) ==
    [pc |-> "startup", notebook_iterations |-> notebook_iterations,
     shutdown |-> FALSE,
     repo |-> <<>>, _notebook_iterator |-> 0, notebook |-> 0,
     error |-> "none", read |-> <<>>, ran |-> <<>>,
     cells |-> <<>>, count |-> 0, cell |-> 0,
     session |-> {}, next_session |-> 1, open |-> {}, websockets |-> {},
     success_count |-> 0, failure_count |-> 0]

\* Mutant of lab_business_raises: the exception is raised again and not
\* counted.
lab_business_raises_NotCounted(r) ==
    [r EXCEPT !.pc = "failed"]

\* run(), the except clauses: an exception of lab_business() is counted and
\* raised again, which ends run().
lab_business_raises(r) ==
    [r EXCEPT !.pc = "failed", !.failure_count = @ + 1]

\* path.endswith(suffix), for a suffix that is one piece.
endswith(path, suffix) == Len(path) > 0 /\ path[Len(path)] = suffix

\* Mutant of _next_notebook: the next entry is taken whatever its suffix.
_next_notebook_NoSkip(r, depth) ==
    LET it == IF r._notebook_iterator > Len(r.repo) THEN 1
              ELSE r._notebook_iterator
    IN  IF r.repo = <<>> THEN [r EXCEPT !.error = "RecursionError"]
        ELSE [r EXCEPT !.notebook = it, !._notebook_iterator = it + 1]

\* _next_notebook(): entries are taken from the iterator until one ends in
\* .ipynb; when the iterator is exhausted (StopIteration) a new scan of the
\* directory begins and _next_notebook() calls itself.
RECURSIVE _next_notebook(_, _)
_next_notebook(r, depth) ==
    LET it == r._notebook_iterator
        taken == [r EXCEPT !.notebook = it, !._notebook_iterator = it + 1]
    IN  IF depth > MaxDepth THEN [r EXCEPT !.error = "RecursionError"]
        ELSE IF it > Len(r.repo)
        THEN _next_notebook([r EXCEPT !._notebook_iterator = 1], depth + 1)
        ELSE IF endswith(r.repo[it], ".ipynb") THEN taken
        ELSE _next_notebook(taken, depth)

\* read_notebook(): the cells of the notebook whose cell_type is code.
RECURSIVE read_notebook(_, _)
read_notebook(cells, i) ==
    IF i > Len(cells) THEN <<>>
    ELSE (IF cells[i] = "code" THEN <<i>> ELSE <<>>)
         \o read_notebook(cells, i + 1)

\* run(), before the loop: startup() is awaited outside the try, so an
\* exception of it ends run() and is not counted.  startup() makes the
\* iterator over the directory before it logs in.
RunnerStartup(ok) ==
    /\ nr.pc = "startup"
    /\ nr' = [nr EXCEPT !.pc = IF ok THEN "idle" ELSE "failed",
                        !._notebook_iterator = 1]
    /\ ret' = NoCall
    /\ UNCHANGED <<flockVars, now, stopwatches, nb, jc>>

\* The task that runs run() is cancelled: CancelledError is raised at the
\* await the run is at; it is no Exception, so no except clause of run()
\* catches it, and run() ends.
RunCancelled ==
    /\ nr.pc \in {"startup", "idle", "create_session", "cells",
                  "delete_session"}
    /\ nr' = [nr EXCEPT !.pc = "cancelled"]
    /\ ret' = NoCall
    /\ UNCHANGED <<flockVars, now, stopwatches, nb, jc>>

\* lab_business() up to create_session(): the next notebook, ensure_lab()
\* and lab_settle().
LabBusinessBegins(ok) ==
    /\ nr.pc = "idle"
    /\ nr.success_count + nr.failure_count < MaxPasses
    /\ LET r == _next_notebook(nr, 1)
       IN nr' = IF r.error = "none" /\ ok
                THEN [r EXCEPT !.pc = "create_session"]
                ELSE lab_business_raises(r)
    /\ ret' = NoCall
    /\ UNCHANGED <<flockVars, now, stopwatches, nb, jc>>

\* create_session() and read_notebook(): create_labsession() raises when the
\* POST is not answered 201, and when the websocket cannot be connected to
\* the kernel of the session the POST created.
CreateSession(created, connected, cells) ==
    /\ nr.pc = "create_session"
    /\ nr' = IF ~created THEN lab_business_raises(nr)
             ELSE IF ~connected
             THEN lab_business_raises(
                      [nr EXCEPT !.open = @ \cup {nr.next_session},
                                 !.next_session = @ + 1])
             ELSE [nr EXCEPT !.session = {nr.next_session},
                             !.open = @ \cup {nr.next_session},
                             !.websockets = @ \cup {nr.next_session},
                             !.next_session = @ + 1,
                             !.read = cells, !.ran = <<>>,
                             !.cells = read_notebook(cells, 1),
                             !.count = 1, !.cell = 1,
                             !.pc = IF read_notebook(cells, 1) = <<>>
                                    THEN "delete_session" ELSE "cells"]
    /\ ret' = NoCall
    /\ UNCHANGED <<flockVars, now, stopwatches, nb, jc>>

\* One turn of the loop over the cells: execute_code() and
\* execution_idle(); after the last cell of the last iteration the loops
\* are left.
LabBusinessRunsCell(ok) ==
    /\ nr.pc = "cells"
    /\ LET r == [nr EXCEPT !.ran = Append(@, nr.cells[nr.cell])]
       IN nr' = IF ~ok THEN lab_business_raises(r)
                ELSE IF nr.cell < Len(nr.cells) THEN [r EXCEPT !.cell = @ + 1]
                ELSE IF nr.count < nr.notebook_iterations
                THEN [r EXCEPT !.count = @ + 1, !.cell = 1]
                ELSE [r EXCEPT !.pc = "delete_session"]
    /\ ret' = NoCall
    /\ UNCHANGED <<flockVars, now, stopwatches, nb, jc>>

\* delete_session(): delete_labsession() closes the websocket after the
\* DELETE, which raises for an error status; lab_business() then returns
\* and run() counts the success and loops.
DeleteSession(ok) ==
    /\ nr.pc = "delete_session"
    /\ nr' = IF ~ok THEN lab_business_raises(nr)
             ELSE [nr EXCEPT !.pc = "idle",
                             !.open = @ \ nr.session,
                             !.websockets = @ \ nr.session,
                             !.session = {},
                             !.success_count = @ + 1]
    /\ ret' = NoCall
    /\ UNCHANGED <<flockVars, now, stopwatches, nb, jc>>

\* Monkey._runner, with restart set, calls run() again after the pause that
\* follows a failure: startup() begins again, on the same NotebookRunner.
RunAgain ==
    /\ nr.pc = "failed"
    /\ nr' = [nr EXCEPT !.pc = "startup", !.error = "none"]
    /\ ret' = NoCall
    /\ UNCHANGED <<flockVars, now, stopwatches, nb, jc>>

\* The directories: up to MaxEntries entries, none twice, among two
\* notebooks, a text, and a copy of a notebook under another suffix.
Repos ==
    LET Entries == {<<"a", ".ipynb">>, <<"b", ".ipynb">>, <<"README", ".md">>,
                    <<"c", ".ipynb", ".bak">>}
    IN  {d \in UNION {[1..n -> Entries] : n \in 0..MaxEntries} :
            \A i, j \in DOMAIN d : i # j => d[i] # d[j]}

InitRunner ==
    /\ NoFlock
    /\ ret = NoCall
    /\ now = 0
    /\ stopwatches = <<>>
    /\ nb = [pc |-> "none"]
    /\ jc = [pc |-> "none"]
    /\ \E notebook_iterations \in 1..MaxIterations, repo \in Repos :
          nr = [NewRunner(notebook_iterations) EXCEPT !.repo = repo]

NextRunner ==
    \/ \E ok \in BOOLEAN : RunnerStartup(ok)
    \/ RunCancelled
    \/ \E ok \in BOOLEAN : LabBusinessBegins(ok)
    \/ \E created \in BOOLEAN, connected \in BOOLEAN,
          cells \in UNION {[1..n -> {"code", "markdown"}] : n \in 0..MaxCells} :
          CreateSession(created, connected, cells)
    \/ RunAgain
    \/ \E ok \in BOOLEAN : LabBusinessRunsCell(ok)
    \/ \E ok \in BOOLEAN : DeleteSession(ok)

SpecRunner == InitRunner /\ [][NextRunner]_vars

\* C16: every session that is opened is released, its websocket closed and
\* the session deleted on the lab, when its block ends, also when code run
\* in the block fails: after a pass, whether lab_business() returned or
\* raised, no session and no websocket is left open.
C16_SessionsReleased ==
    nr.pc \in {"idle", "failed", "cancelled"} =>
        nr.open = {} /\ nr.websockets = {}

(***************************************************************************)
(* Claims about NubladoBusiness.spawn_lab, under SpecNublado.             *)
(***************************************************************************)

\* C19: when the progress of the spawn gives no ready message within the
\* spawn timeout, so that the timeout ends the watch, and no stop was
\* requested, spawn_lab() raises JupyterTimeoutError, which states the
\* seconds elapsed since spawn_lab() began and carries the log; it does not
\* raise JupyterSpawnError.
C19_TimeoutError ==
    [][nb.pc = "spawn_watch" /\ nb'.progress = "timeout" /\ ~nb.stopping
       => nb'.error = [type |-> "JupyterTimeoutError",
                       elapsed |-> now' - nb.timings[nb.sw].start_time,
                       log |-> nb.log_messages]]_vars

\* spawn_lab() raised JupyterTimeoutError three seconds after it began,
\* with one progress message in the log.
C19_Witness ==
    /\ nb.pc # "none"
    /\ nb.progress = "timeout"
    /\ nb.error.type = "JupyterTimeoutError"
    /\ nb.error.elapsed = 3
    /\ Len(nb.error.log) = 1

\* C20: when the progress of the spawn ends with no ready message before
\* the timeout, both the one of the watch and the spawn timeout counted
\* from the beginning of spawn_lab(), and no stop was requested,
\* spawn_lab() raises JupyterSpawnError with the progress messages received
\* so far, in the order received.
C20_SpawnError ==
    [][/\ nb.pc = "spawn_watch"
       /\ nb'.progress = "closed"
       /\ ~nb.stopping
       /\ now' - nb.timings[nb.sw].start_time < nb.options.spawn_timeout
       => nb'.error = [type |-> "JupyterSpawnError",
                       log |-> nb.log_messages]]_vars

C22_DeleteLab ==
    [][/\ nb.pc \in {"delete_lab", "delete_poll"}
       /\ nb' # nb
       /\ nb'.stopping = nb.stopping
       => LET rec == nb'.timings[nb'.sw]
              returned == rec.stop_time # {} /\ ~rec.failed
          IN  /\ ~nb.stopping /\ returned =>
                    /\ nb.pc = "delete_poll"
                    /\ nb'.is_lab_stopped = {TRUE}
              /\ nb.pc = "delete_poll" /\ rec.failed =>
                    /\ now - nb.poll_start > nb.options.delete_timeout
                    /\ nb'.is_lab_stopped = {FALSE}
              /\ nb.pc = "delete_poll" /\ nb'.pc = "delete_poll" =>
                    now' = now + 2
              /\ nb.pc = "delete_lab" /\ nb.stopping /\ ~rec.failed =>
                    /\ returned
                    /\ nb'.pc # "delete_poll"
                    /\ nb'.is_lab_stopped = nb.is_lab_stopped]_vars

\* delete_lab() returned, with no stop requested, when the second look, one
\* pause of 2 seconds after the first, found the lab stopped.
C22_Witness ==
    /\ nb.pc # "none"
    /\ ~nb.stopping
    /\ nb.sw > 0
    /\ nb.timings[nb.sw].event = "delete_lab"
    /\ nb.timings[nb.sw].stop_time = {nb.poll_start + 2}
    /\ ~nb.timings[nb.sw].failed
    /\ nb.polls = 1
    /\ nb.is_lab_stopped = {TRUE}

\* C23: with options.delete_lab off, execute() spawns a lab only if it has
\* just found the lab stopped and goes on with a lab it found running; as
\* long as the business is in its execute passes it never logs in to the
\* hub again and never deletes the lab, so a running lab is still there
\* for the next pass.
C23_ReuseLab ==
    [][~nb.options.delete_lab =>
          /\ nb.pc = "execute" /\ nb'.pc = "spawn_lab" =>
                nb'.is_lab_stopped = {TRUE}
          /\ nb.pc = "execute" /\ nb'.is_lab_stopped = {FALSE}
                               /\ nb'.stopping = nb.stopping =>
                nb'.pc = "lab_login"
          /\ nb.phase = "execute" /\ nb'.phase = "execute" =>
                /\ nb'.pc \notin {"hub_login", "delete_lab", "delete_poll"}
                /\ \A i \in (Len(nb.timings) + 1)..Len(nb'.timings) :
                      nb'.timings[i].event \notin {"hub_login", "delete_lab"}
      ]_vars

\* An execute pass with options.delete_lab off has returned: it found a
\* lab running, spawned none and ran the code in a session.
C23_Witness ==
    /\ nb.pc = "loop"
    /\ ~nb.options.delete_lab
    /\ nb.success_count = 1
    /\ nb.is_lab_stopped = {FALSE}
    /\ nb.sessions = 0
    /\ \A i \in DOMAIN nb.timings : nb.timings[i].event # "spawn_lab"
    /\ \E i \in DOMAIN nb.timings : nb.timings[i].event = "execute_code"

\* The timing records t end with those of one whole execute pass that
\* deletes its lab, each stopped, none failed, in the order of their
\* events: spawn_lab, lab_login, create_session, execute_setup, one or more
\* times execute_code and execution_idle, lab_login, delete_sesion,
\* hub_login, delete_lab.
WholePass(t) ==
    \E k \in 1..Len(t) :
       LET n == Len(t)
           event(i) == t[i].event
       IN  /\ n - k >= 9
           /\ (n - k) % 2 = 1
           /\ <<event(k), event(k + 1), event(k + 2), event(k + 3)>> =
                 <<"spawn_lab", "lab_login", "create_session",
                   "execute_setup">>
           /\ \A i \in (k + 4)..(n - 4) :
                 event(i) = IF (i - k) % 2 = 0 THEN "execute_code"
                                               ELSE "execution_idle"
           /\ <<event(n - 3), event(n - 2), event(n - 1), event(n)>> =
                 <<"lab_login", "delete_sesion", "hub_login", "delete_lab">>
           /\ \A i \in k..n : t[i].stop_time # {} /\ ~t[i].failed
           /\ \A i \in k..(n - 1) :
                 /\ t[i].stop_time \subseteq 0..t[i + 1].start_time
                 /\ t[i].start_time <= t[i + 1].start_time

\* C24, as stated: with options.delete_lab on, every execute pass that
\* returns normally has spawned a lab, logged in to it, run the code in a
\* session, closed the session, logged in to the hub again and deleted the
\* lab, in this order.
C24_EveryPassWhole ==
    [][/\ nb.options.delete_lab
       /\ nb.phase = "execute"
       /\ nb'.success_count = nb.success_count + 1
       => /\ WholePass(nb'.timings)
          /\ nb'.sessions = 0]_vars

\* C24, amended: with options.delete_lab on, every execute pass that
\* returns normally, other than a pass that a stop request ended while the
\* lab was spawned, has spawned a lab, logged in to it, run the code in a
\* session, closed the session, logged in to the hub again and deleted the
\* lab, in this order; unless a stop was requested, it returns only once
\* the lab has been seen stopped.
C24_WholePass ==
    [][/\ nb.options.delete_lab
       /\ nb.phase = "execute"
       /\ nb'.success_count = nb.success_count + 1
       /\ nb.pc \notin {"spawn_settle", "spawn_watch"}
       => /\ WholePass(nb'.timings)
          /\ nb'.sessions = 0
          /\ ~nb.stopping => nb'.is_lab_stopped = {TRUE}]_vars

\* An execute pass with options.delete_lab on has returned after two runs
\* of the code, with no stop requested.
C24_Witness ==
    /\ nb.pc = "loop"
    /\ nb.options.delete_lab
    /\ ~nb.stopping
    /\ nb.success_count = 1
    /\ nb.count = 2
    /\ WholePass(nb.timings)

----------------------------------------------------------------------------
(* Claims about the run loop of NotebookRunner, under SpecRunner.          *)

\* C25: shutdown() of the Business runs on every exit from its run loop,
\* whether the loop ends by a failure of startup() or of a pass or by
\* cancellation: once run() has ended, shutdown() has been called.
C25_ShutdownOnExit ==
    nr.pc \in {"failed", "cancelled"} => nr.shutdown

\* C26: each pass of the run loop changes exactly one counter by exactly
\* one: success_count when lab_business() returns, failure_count when it
\* raises an exception; a failing pass leaves success_count as it is, a
\* step that ends no pass leaves both as they are, and neither counter ever
\* decreases.
C26_Counters ==
    [][LET inPass == nr.pc \in {"idle", "create_session", "cells",
                                "delete_session"}
           returns == nr.pc = "delete_session" /\ nr'.pc = "idle"
           fails == inPass /\ nr'.pc = "failed"
       IN  /\ nr'.success_count =
                 nr.success_count + (IF returns THEN 1 ELSE 0)
           /\ nr'.failure_count =
                 nr.failure_count + (IF fails THEN 1 ELSE 0)
           /\ ~(returns /\ fails)]_vars

\* run() ended with the failure of its second pass, the first one having
\* returned.
C26_Witness ==
    /\ nr.pc = "failed"
    /\ nr.success_count = 1
    /\ nr.failure_count = 1

----------------------------------------------------------------------------
(* Claims about the text of execution failures, under SpecClient.          *)

\* C27: the text of the exception that run_python() raises for a failed
\* execution, which is the text the Monkey logs and alerts with, contains
\* no ANSI escape sequence: at no index of it does a match of
\* __ansi_reg_exp begin.
C27_NoEscapeSequence ==
    jc.call = "run_python" =>
        \A e \in jc.raised :
           \A i \in DOMAIN e.msg : MatchEnd(e.msg, i) = 0

\* C28: when the watch of the progress fails with the error that the
\* client raises for a redirect loop, a SlackException, that same error
\* leaves spawn_lab(): the spawn_lab record is stopped as failed at that
\* moment, the failure is counted and run() goes on to shutdown(); the
\* error is neither JupyterSpawnError nor JupyterTimeoutError.
C28_RedirectLoop ==
    [][/\ nb.pc = "spawn_watch"
       /\ nb'.progress_exc = {"SlackException"}
       => /\ nb'.error = [type |-> "SlackException"]
          /\ nb'.timings[nb.sw].event = "spawn_lab"
          /\ nb'.timings[nb.sw].stop_time = {now}
          /\ nb'.timings[nb.sw].failed
          /\ nb'.failure_count = nb.failure_count + 1
          /\ nb'.pc = "delete_lab"
          /\ nb'.phase = "shutdown"]_vars

\* The redirect-loop error has left spawn_lab() after one progress message.
C28_Witness ==
    /\ nb.pc # "none"
    /\ nb.progress_exc = {"SlackException"}
    /\ nb.error = [type |-> "SlackException"]
    /\ Len(nb.log_messages) = 1

----------------------------------------------------------------------------
(* JupyterClientSession (jupyterclient.py): the JupyterClients of several  *)
(* Monkeys, each with its aiohttp session, and the requests they send.    *)
(* Under SpecSessions jc holds the clients made so far, the number of     *)
(* aiohttp sessions created and the last call made on one of them.  A     *)
(* user is a number and its token is <<"token", user>>; a dict of headers *)
(* is a function from header names to values.                             *)

\* Most JupyterClients made.
MaxClients == 3

\* JupyterClientSession.request(): the call it makes on its aiohttp session,
\* for the client at index c; kwargs.headers is empty if the caller gave no
\* headers.
request_KeepsCallersHeader(c, method, kwargs) ==
    LET self == jc.clients[c]
        given == IF kwargs.headers = {} THEN <<>> ELSE TheOne(kwargs.headers)
        headers == [name \in DOMAIN given \cup {"Authorization"} |->
                       IF name \in DOMAIN given THEN given[name]
                       ELSE <<"Bearer", self._token>>]
    IN  [client |-> c, session |-> self._session, method |-> method,
         headers |-> headers]

request(c, method, kwargs) ==
    LET self == jc.clients[c]
        given == IF kwargs.headers = {} THEN <<>> ELSE TheOne(kwargs.headers)
        headers == [name \in DOMAIN given \cup {"Authorization"} |->
                       IF name = "Authorization"
                       THEN <<"Bearer", self._token>>
                       ELSE given[name]]
    IN  [client |-> c, session |-> self._session, method |-> method,
         headers |-> headers]

\* JupyterClientSession.ws_connect(): the same for a websocket.
ws_connect(c, kwargs) ==
    LET self == jc.clients[c]
        given == IF kwargs.headers = {} THEN <<>> ELSE TheOne(kwargs.headers)
        headers == [name \in DOMAIN given \cup {"Authorization"} |->
                       IF name = "Authorization"
                       THEN <<"Bearer", self._token>>
                       ELSE given[name]]
    IN  [client |-> c, session |-> self._session, method |-> "ws_connect",
         headers |-> headers]

\* JupyterClient.__init__() for a user: a new aiohttp ClientSession, wrapped
\* with the token of the user.
JupyterClientInit(user) ==
    /\ jc.pc = "clients"
    /\ Len(jc.clients) < MaxClients
    /\ jc' = [jc EXCEPT !.sessions = @ + 1,
                        !.clients = Append(@, [user |-> user,
                                               _session |-> jc.sessions + 1,
                                               _token |-> <<"token", user>>])]
    /\ ret' = NoCall
    /\ UNCHANGED <<flockVars, now, stopwatches, nb, nr>>

\* A get, post or delete of the client at index c, as the methods of
\* JupyterClient make them.
ClientRequest(c, method, kwargs) ==
    /\ jc.pc = "clients"
    /\ c \in DOMAIN jc.clients
    /\ jc' = [jc EXCEPT !.sent = {request(c, method, kwargs)}]
    /\ ret' = NoCall
    /\ UNCHANGED <<flockVars, now, stopwatches, nb, nr>>

\* _websocket_connect() of the client at index c.
ClientWsConnect(c, kwargs) ==
    /\ jc.pc = "clients"
    /\ c \in DOMAIN jc.clients
    /\ jc' = [jc EXCEPT !.sent = {ws_connect(c, kwargs)}]
    /\ ret' = NoCall
    /\ UNCHANGED <<flockVars, now, stopwatches, nb, nr>>

InitSessions ==
    /\ NoFlock
    /\ ret = NoCall
    /\ now = 0
    /\ stopwatches = <<>>
    /\ nb = [pc |-> "none"]
    /\ nr = [pc |-> "none"]
    /\ jc = [pc |-> "clients", clients |-> <<>>, sessions |-> 0, sent |-> {}]

\* The callers give no headers, an empty dict, a Referer, or an
\* Authorization header, spelled as the wrapper spells it or in lower case,
\* with the token of some user.
NextSessions ==
    LET Users == {1, 2}
        Kwargs ==
            {[headers |-> h] :
                h \in {{}, {<<>>}, {[name \in {"Referer"} |-> <<"hub/home">>]}}
                      \cup {{[name \in {n} |-> <<"Bearer", <<"token", u>>>>]} :
                               n \in {"Authorization", "authorization"},
                               u \in Users}}
    IN  \/ \E user \in Users : JupyterClientInit(user)
        \/ \E c \in 1..MaxClients, method \in {"get", "post", "delete"},
              kwargs \in Kwargs : ClientRequest(c, method, kwargs)
        \/ \E c \in 1..MaxClients, kwargs \in Kwargs :
              ClientWsConnect(c, kwargs)

SpecSessions == InitSessions /\ [][NextSessions]_vars

----------------------------------------------------------------------------
(* Monkey._runner and Monkey.alert (monkey.py), one Monkey, step by step.  *)
(* Under SpecAlert nr is the Monkey: its state, the run flag of _runner,   *)
(* the position of its task, and counts of what has happened: exceptions   *)
(* other than CancelledError that business.run() raised into _runner       *)
(* (failures), "Slack Alert" lines written to the log (logged), request    *)
(* coroutines made by session.post() (posts), and requests that were sent  *)
(* to the alert hook (sent).                                               *)

\* Most exceptions business.run() raises into _runner.
MaxFailures == 3

\* Monkey.alert(msg): the line in the log; with an alert hook configured, a
\* new ClientSession and session.post(hook, data), whose result is never
\* awaited, so the coroutine that would send the request never runs and
\* nothing is sent.  raises: making the session or the coroutine raised,
\* which alert() logs and swallows.
alert(self, msg, raises) ==
    [self EXCEPT !.logged = @ + 1,
                 !.alert_state = self.state,
                 !.alert_msg = msg,
                 !.posts = IF self.alert_hook # "None" /\ ~raises
                           THEN @ + 1 ELSE @]

\* The top of the while loop of _runner: state RUNNING, business.run()
\* is awaited.
RunBegins ==
    /\ nr.pc = "loop"
    /\ nr.run
    /\ nr' = [nr EXCEPT !.state = "RUNNING", !.pc = "run"]
    /\ ret' = NoCall
    /\ UNCHANGED <<flockVars, now, stopwatches, nb, jc>>

\* business.run() returns: state FINISHED, and the loop goes on.
RunReturns ==
    /\ nr.pc = "run"
    /\ nr' = [nr EXCEPT !.state = "FINISHED", !.pc = "loop"]
    /\ ret' = NoCall
    /\ UNCHANGED <<flockVars, now, stopwatches, nb, jc>>

\* business.run() is cancelled: "Shutting down" is logged, run = False and
\* the loop ends, with no alert.
RunCancelledError ==
    /\ nr.pc = "run"
    /\ nr' = [nr EXCEPT !.run = FALSE, !.pc = "done"]
    /\ ret' = NoCall
    /\ UNCHANGED <<flockVars, now, stopwatches, nb, jc>>

\* business.run() raises the exception e: state ERROR, log.exception(),
\* alert(str(e)), run = restart, and sleep(60) is awaited.
RunRaises(e, raises) ==
    /\ nr.pc = "run"
    /\ nr.failures < MaxFailures
    /\ nr' = [alert([nr EXCEPT !.state = "ERROR", !.failures = @ + 1],
                    e, raises)
                 EXCEPT !.run = nr.restart, !.pc = "sleep"]
    /\ ret' = NoCall
    /\ UNCHANGED <<flockVars, now, stopwatches, nb, jc>>

\* sleep(60) returns: the while condition is tested.
Sleep60Done ==
    /\ nr.pc = "sleep"
    /\ nr' = [nr EXCEPT !.pc = IF nr.run THEN "loop" ELSE "done"]
    /\ now' = now + 60
    /\ ret' = NoCall
    /\ UNCHANGED <<flockVars, stopwatches, nb, jc>>

\* The task is cancelled during sleep(60): the CancelledError is raised
\* inside the except clause and ends _runner.
Sleep60Cancelled ==
    /\ nr.pc = "sleep"
    /\ nr' = [nr EXCEPT !.pc = "done"]
    /\ ret' = NoCall
    /\ UNCHANGED <<flockVars, now, stopwatches, nb, jc>>

\* A Monkey made with or without restart, with or without an alert hook in
\* the Configuration.
InitAlert ==
    /\ NoFlock
    /\ ret = NoCall
    /\ now = 0
    /\ stopwatches = <<>>
    /\ nb = [pc |-> "none"]
    /\ jc = [pc |-> "none"]
    /\ \E restart \in BOOLEAN,
          alert_hook \in {"None", "https://slack.example.com/services/X"} :
          nr = [pc |-> "loop", state |-> "IDLE", run |-> TRUE,
                restart |-> restart, alert_hook |-> alert_hook,
                failures |-> 0, logged |-> 0, posts |-> 0, sent |-> 0,
                alert_state |-> "none", alert_msg |-> "none"]

NextAlert ==
    \/ RunBegins
    \/ RunReturns
    \/ RunCancelledError
    \/ \E e \in {"Lab did not spawn after 1s", "Error running code"},
          raises \in BOOLEAN : RunRaises(e, raises)
    \/ Sleep60Done
    \/ Sleep60Cancelled

SpecAlert == InitAlert /\ [][NextAlert]_vars

\* C30: with an alert hook configured, every failure of business.run() that
\* reaches the Monkey, other than a cancellation, has sent exactly one alert
\* to the alert hook by the time the 60-second pause begins (so the requests
\* sent are as many as the failures), the state was ERROR when the alert
\* was made, and the Business is restarted only after the pause that
\* follows the alert.
C30_OneAlertPerFailure ==
    nr.pc \in {"loop", "run", "sleep", "done"} =>
        /\ nr.alert_hook # "None" => nr.sent = nr.failures
        /\ nr.failures > 0 => nr.alert_state = "ERROR"
        /\ nr.pc = "run" => now = 60 * nr.failures

----------------------------------------------------------------------------
(* The fixed-code strategy: JupyterPythonLoop.execute_code.                *)

\* The runs of the code made in the session that was opened last: the
\* execute_code records of the timings after the last execute_setup record.
CodeRuns(b) ==
    LET t == b.timings
        opened == {i \in DOMAIN t : t[i].event = "execute_setup"}
    IN  Cardinality({i \in DOMAIN t : /\ t[i].event = "execute_code"
                                      /\ \A j \in opened : j < i})

\* C31: execute_code runs the code at most max_executions times, each run
\* followed by an idle pause: when it returns with no stop requested it has
\* run the code exactly max_executions times, a pause that a stop request
\* cancels is followed by no further run, and no run is made after
\* execute_code has returned.
C31_ExecuteCode ==
    [][/\ CodeRuns(nb') <= nb.options.max_executions
       /\ (nb'.pc = "relogin" /\ ~nb'.stopping) =>
              CodeRuns(nb') = nb.options.max_executions
       /\ (nb.pc = "execute_code" /\ nb'.pc # "execute_code") =>
              /\ CodeRuns(nb') = CodeRuns(nb) + 1
              /\ nb'.error = NoError => nb'.pc = "execution_idle"
       /\ (nb.pc # "execute_code" /\ Len(nb'.timings) = Len(nb.timings)) =>
              CodeRuns(nb') = CodeRuns(nb)
       /\ nb'.pc = "execute_setup" => CodeRuns(nb') = CodeRuns(nb)
       /\ (nb.pc = "execute_setup" /\ nb'.pc # "execute_setup") =>
              CodeRuns(nb') = 0
       /\ (nb.pc = "execution_idle" /\ nb.stopping) =>
              nb'.pc \in {"execution_idle", "relogin"}
       /\ nb.pc \in {"relogin", "delete_session"} =>
              nb'.pc # "execute_code"]_vars

\* execute_code has returned after one run of two, its idle pause cancelled
\* by a stop request.
C31_Witness ==
    /\ nb.pc = "relogin"
    /\ nb.stopping
    /\ nb.options.max_executions = 2
    /\ CodeRuns(nb) = 1
    /\ nb.timings[Len(nb.timings)].event = "execution_idle"

----------------------------------------------------------------------------
(* The notebook strategy: the order of the notebooks and of the cells.     *)

\* The entries of the directory that are notebooks.
Notebooks(r) == {i \in DOMAIN r.repo : endswith(r.repo[i], ".ipynb")}

\* The notebook after the current one in the cycle.
NextInCycle(r) ==
    LET later == {i \in Notebooks(r) : i > r.notebook}
        from == IF later # {} THEN later ELSE Notebooks(r)
    IN  CHOOSE i \in from : \A j \in from : i <= j

\* lab_business() begins a pass and finds a notebook.
PassBegins ==
    /\ nr.pc = "idle"
    /\ nr'.pc \in {"create_session", "failed"}
    /\ Notebooks(nr) # {}

\* The cells executed so far in a pass are code cells of the notebook, in
\* the order of the notebook, the whole list once for every iteration.
CellsInOrder(r) ==
    LET k == Cardinality({i \in DOMAIN r.read : r.read[i] = "code"})
    IN  /\ Len(r.ran) <= r.notebook_iterations * k
        /\ r.pc = "delete_session" => Len(r.ran) = r.notebook_iterations * k
        /\ \A j \in DOMAIN r.ran :
              /\ r.ran[j] \in DOMAIN r.read
              /\ r.read[r.ran[j]] = "code"
              /\ Cardinality({i \in 1..r.ran[j] : r.read[i] = "code"}) =
                     ((j - 1) % k) + 1

\* C32 as stated: every pass takes the notebook after the current one in the
\* cycle of the .ipynb entries, the first one after the last, and the cells
\* executed in a pass are the code cells, in order, once per iteration.
C32_CyclicOrder ==
    /\ [](nr.pc \in {"cells", "delete_session"} => CellsInOrder(nr))
    /\ [][PassBegins => nr'.notebook = NextInCycle(nr)]_vars

\* C32, amended: the same for the passes of one call of run(); the first
\* pass of every call of run(), whose startup() has made a new iterator,
\* takes the first notebook.
C32_CyclicOrderInRun ==
    /\ [](nr.pc \in {"cells", "delete_session"} => CellsInOrder(nr))
    /\ [][PassBegins =>
            nr'.notebook = IF nr._notebook_iterator = 1
                           THEN NextInCycle([nr EXCEPT !.notebook = 0])
                           ELSE NextInCycle(nr)]_vars

\* The second pass of a run has executed the cells of the second notebook
\* of the directory, which follows a text: two code cells with a markdown
\* cell between them, twice.
C32_Witness ==
    /\ nr.pc = "delete_session"
    /\ nr.success_count = 1 /\ nr.failure_count = 0
    /\ nr.repo = <<<<"a", ".ipynb">>, <<"README", ".md">>, <<"b", ".ipynb">>>>
    /\ nr.notebook = 3
    /\ nr.read = <<"code", "markdown", "code">>
    /\ nr.ran = <<1, 3, 1, 3>>

\* C37: the selection of the next notebook ends, for every content of the
\* repository, with no error and with the current notebook an entry of the
\* directory that ends in .ipynb.
C37_NotebookSelected ==
    /\ nr.error = "none"
    /\ nr.pc \in {"create_session", "cells", "delete_session"} =>
          nr.notebook \in Notebooks(nr)

----------------------------------------------------------------------------
(* Claims about JupyterClient.delete_lab, under SpecClient.                *)

\* C33: delete_lab() is idempotent and does not wait: without a running lab
\* it sends no DELETE and returns without error; with one it sends the
\* DELETE and returns without asking again whether the lab is running, and
\* never raises because the lab is still running.
C33_DeleteDoesNotWait ==
    jc.call = "delete_lab" =>
        /\ jc.deletes <= 1
        /\ (jc.pc = "done" /\ jc.deletes = 0) => jc.raised = "none"
        /\ jc.raised # "none" => jc.pc = "done" /\ jc.polls = 0
        /\ jc.polls = 0

----------------------------------------------------------------------------
(* Claims about the polling of JupyterClient.spawn_lab, under SpecClient.  *)

\* What holds of every spawn_lab() whose POST was accepted: at most
\* max_poll_secs / poll_interval polls, a sleep of poll_interval after every
\* poll that goes on, and the give-up error after the last of them.
SpawnPollsBounded ==
    LET most == max_poll_secs \div poll_interval
    IN  /\ jc.polls <= most
        /\ now = poll_interval * (most - jc.retries)
        /\ now <= max_poll_secs
        /\ jc.pc = "polling" => jc.raised = "none" /\ jc.polls = most - jc.retries
        /\ jc.raised = "Giving up waiting for lab to spawn!" =>
              /\ jc.pc = "done" /\ jc.polls = most /\ jc.retries = 0
              /\ TheOne(jc.last).url # urls(jc.username).lab_url

\* C40 as stated: the polling ends; a poll that lands on the lab URL of the
\* user ends the call without error, and a poll that returns an error
\* status ends it with an error.
C40_ErrorStatusFails ==
    (jc.call = "spawn_lab" /\ spawn_lab_post(jc.username, jc.r) = "none") =>
        /\ SpawnPollsBounded
        /\ \A r \in jc.last :
              /\ r.url = urls(jc.username).lab_url =>
                    jc.pc = "done" /\ jc.raised = "none"
              /\ r.status >= 400 =>
                    jc.pc = "done" /\ jc.raised = "Error spawning"

\* C40, amended: the polling ends; a poll that lands on the lab URL of the
\* user ends the call without error, whatever its status; a poll that
\* lands elsewhere and returns an error status ends it with an error; any
\* other poll is followed by a sleep and, while retries are left, by
\* another poll.
C40_SpawnPolling ==
    (jc.call = "spawn_lab" /\ spawn_lab_post(jc.username, jc.r) = "none") =>
        /\ SpawnPollsBounded
        /\ \A r \in jc.last :
              LET lab == r.url = urls(jc.username).lab_url
              IN  /\ lab => jc.pc = "done" /\ jc.raised = "none"
                  /\ (~lab /\ r.status >= 400) =>
                        jc.pc = "done" /\ jc.raised = "Error spawning"
                  /\ (~lab /\ r.status < 400) =>
                        \/ jc.pc = "polling"
                        \/ jc.raised = "Giving up waiting for lab to spawn!"

\* spawn_lab() gave up after its last poll, 900 seconds after the POST.
C40_Witness ==
    /\ jc.call = "spawn_lab"
    /\ jc.pc = "done"
    /\ jc.raised = "Giving up waiting for lab to spawn!"
    /\ jc.polls = 60
    /\ now = 900

----------------------------------------------------------------------------
(* The Monkeys of a flock fail one by one.                                 *)

\* business.run() of Monkey m raises into Monkey._runner in this step.
Fails(m) ==
    /\ monkeys[m].job \in {"startup", "execute"}
    /\ monkeys'[m].job = "backoff"

\* C34: a failure of the Business of one Monkey leaves every other Monkey of
\* the flock as it is, with its task, its state and its counters, and the
\* alert that follows the failure names the user of the failing Monkey; no
\* alert is made but by a failure.
C34_FailureIsLocal ==
    [][/\ \A m \in MonkeyIds :
             Fails(m) =>
                /\ \A k \in MonkeyIds \ {m} : monkeys'[k] = monkeys[k]
                /\ monkeys'[m].state = "ERROR"
                /\ ret' = [call |-> "alert",
                           username |-> monkeys[m].user.username]
       /\ ret'.call = "alert" =>
             \E m \in MonkeyIds :
                Fails(m) /\ ret'.username = monkeys[m].user.username]_vars

\* The first Monkey has just failed and alerted while the second one, of
\* another user, is running a pass after a successful one.
C34_Witness ==
    /\ ret.call = "alert"
    /\ ret.username = monkeys[1].user.username
    /\ monkeys[1].state = "ERROR" /\ monkeys[1].job = "backoff"
    /\ monkeys[1].business.failure_count = 1
    /\ monkeys[2].user.username # monkeys[1].user.username
    /\ monkeys[2].state = "RUNNING" /\ monkeys[2].job = "execute"
    /\ monkeys[2].business.success_count = 1
    /\ monkeys[2].business.failure_count = 0

----------------------------------------------------------------------------
(* The Monkeys that Flock.stop() reaches.                                  *)

\* C39: every Monkey that Flock.start() has started is a value of the
\* mapping from usernames to Monkeys, whatever the configured users, and
\* once Flock.stop() has returned the stop() of every started Monkey has
\* been called and has returned.
C39_EveryStartedMonkeyStopped ==
    /\ \A m \in MonkeyIds : monkeys[m].job # "none" => m \in InFlock
    /\ flock_pc = "stopped" =>
            \A m \in MonkeyIds :
                monkeys[m].job # "none" => monkeys[m].stop_pc = "returned"

----------------------------------------------------------------------------
(* Provisioning after deprovisioning, under SpecNublado.                   *)

\* C38: with options.delete_lab set, spawn_lab() is called only when the
\* last look at the lab, made by startup() or by the delete_lab() that ended
\* the pass before, found it stopped.
C38_SpawnOnlyAfterStopped ==
    (nb.options.delete_lab /\ nb.pc = "spawn_lab") =>
        nb.is_lab_stopped = {TRUE}

----------------------------------------------------------------------------
(* FlockManager (services/manager.py): the registry of the flocks and the  *)
(* calls of start_flock(), stop_flock() and aclose() that run on the one   *)
(* event loop, each up to its next await.  Under SpecManager nb is the     *)
(* manager: _flocks maps names to Flocks, flocks lists the Flocks made so  *)
(* far, calls the calls of start_flock() and stop_flock() begun so far,    *)
(* with the position each is suspended at.  A Flock is live while Monkeys  *)
(* of it run.                                                              *)

\* Most calls of start_flock() and stop_flock() by request handlers.
MaxCalls == 3

\* del self._flocks[name]
DictDel(dict, key) == [k \in DOMAIN dict \ {key} |-> dict[k]]

\* flock.stop() called now by a call: the Flock it stops, and whether the
\* Monkeys it gathers are all the Monkeys of the Flock, which they are once
\* start() has started them all.
flock_stop(m, call, f) ==
    [call EXCEPT !.pc = IF call.op = "start_flock" THEN "stop_old"
                        ELSE "stopping",
                 !.target = f, !.covers = (m.flocks[f].started = "yes")]

\* flock.stop() returns to the call at index c: the Monkeys it gathered have
\* stopped.
flock_stopped(m, c) ==
    [m EXCEPT !.flocks[m.calls[c].target].live =
                  IF m.calls[c].covers THEN FALSE ELSE @]

\* self._flocks[flock.name] = flock; await flock.start(), to its first
\* await.  replaced is the Flock that the name was registered for.
register(m, c) ==
    LET call == m.calls[c]
    IN  [m EXCEPT !._flocks = DictSet(@, call.name, call.flock),
                  !.flocks[call.flock].started = "starting",
                  !.flocks[call.flock].live = TRUE,
                  !.calls[c].pc = "starting",
                  !.calls[c].replaced =
                      IF call.name \in DOMAIN m._flocks
                      THEN {m._flocks[call.name]} ELSE {}]

NewCall(op, name, by) ==
    [op |-> op, name |-> name, by |-> by, pc |-> "done", flock |-> 0,
     target |-> 0, covers |-> FALSE, replaced |-> {}, raised |-> "none"]

\* Mutant of StartFlock: the new Flock is registered and started without a
\* look at the registry.
StartFlock_NoStop(name) ==
    /\ nb.pc = "manager" /\ nb.aclose = "none"
    /\ Len(nb.calls) < MaxCalls
    /\ LET f == Len(nb.flocks) + 1
           c == Len(nb.calls) + 1
           call == [NewCall("start_flock", name, "api") EXCEPT !.flock = f]
           m == [nb EXCEPT !.flocks = Append(@, [name |-> name,
                                                 started |-> "no",
                                                 live |-> FALSE])]
       IN nb' = register([m EXCEPT !.calls = Append(@, call)], c)
    /\ ret' = NoCall
    /\ UNCHANGED <<flockVars, now, stopwatches, jc, nr>>

\* start_flock(), to its first await: the Flock is made; a Flock registered
\* under the name is stopped first, else the new one is registered and its
\* start() begins.
StartFlock(name) ==
    /\ nb.pc = "manager" /\ nb.aclose = "none"
    /\ Len(nb.calls) < MaxCalls
    /\ LET f == Len(nb.flocks) + 1
           c == Len(nb.calls) + 1
           call == [NewCall("start_flock", name, "api") EXCEPT !.flock = f]
           m == [nb EXCEPT !.flocks = Append(@, [name |-> name,
                                                 started |-> "no",
                                                 live |-> FALSE])]
       IN nb' = IF name \in DOMAIN nb._flocks
                THEN [m EXCEPT !.calls =
                         Append(@, flock_stop(m, call, nb._flocks[name]))]
                ELSE register([m EXCEPT !.calls = Append(@, call)], c)
    /\ ret' = NoCall
    /\ UNCHANGED <<flockVars, now, stopwatches, jc, nr>>

\* start_flock(), after the stop() of the old Flock has returned: the new
\* Flock is registered and its start() begins.
StartFlockRegisters(c) ==
    /\ nb.pc = "manager"
    /\ c \in DOMAIN nb.calls
    /\ nb.calls[c].pc = "stop_old"
    /\ nb' = register(flock_stopped(nb, c), c)
    /\ ret' = NoCall
    /\ UNCHANGED <<flockVars, now, stopwatches, jc, nr>>

\* start_flock(), flock.start() returns: every Monkey of the Flock has been
\* started.
StartFlockDone(c) ==
    /\ nb.pc = "manager"
    /\ c \in DOMAIN nb.calls
    /\ nb.calls[c].pc = "starting"
    /\ nb' = [nb EXCEPT !.calls[c].pc = "done",
                        !.flocks[nb.calls[c].flock].started = "yes",
                        !.flocks[nb.calls[c].flock].live = TRUE]
    /\ ret' = NoCall
    /\ UNCHANGED <<flockVars, now, stopwatches, jc, nr>>

\* stop_flock(), to its await: FlockNotFoundError for a name that is not
\* registered, else the entry is deleted and the Flock's stop() begins.
StopFlock(name) ==
    /\ nb.pc = "manager" /\ nb.aclose = "none"
    /\ Len(nb.calls) < MaxCalls
    /\ LET call == NewCall("stop_flock", name, "api")
       IN nb' = IF name \notin DOMAIN nb._flocks
                THEN [nb EXCEPT !.calls = Append(@,
                         [call EXCEPT !.raised = "FlockNotFoundError"])]
                ELSE [nb EXCEPT !._flocks = DictDel(@, name),
                                !.calls = Append(@,
                                    flock_stop(nb, call, nb._flocks[name]))]
    /\ ret' = NoCall
    /\ UNCHANGED <<flockVars, now, stopwatches, jc, nr>>

\* stop_flock(), flock.stop() returns, and so does stop_flock().
StopFlockDone(c) ==
    /\ nb.pc = "manager"
    /\ c \in DOMAIN nb.calls
    /\ nb.calls[c].pc = "stopping"
    /\ nb' = [flock_stopped(nb, c) EXCEPT !.calls[c].pc = "done"]
    /\ ret' = NoCall
    /\ UNCHANGED <<flockVars, now, stopwatches, jc, nr>>

\* Mutant of Aclose: the flocks are stopped and the entries are kept.
Aclose_KeepsEntries ==
    /\ nb.pc = "manager" /\ nb.aclose = "none"
    /\ \A c \in DOMAIN nb.calls : nb.calls[c].pc = "done"
    /\ LET names == SelectSeq(<<"a", "b">>, LAMBDA n : n \in DOMAIN nb._flocks)
           stops == [i \in DOMAIN names |->
                        flock_stop(nb, NewCall("stop_flock", names[i], "aclose"),
                                   nb._flocks[names[i]])]
       IN nb' = [nb EXCEPT !.aclose = "gathering",
                           !.calls = @ \o stops]
    /\ ret' = NoCall
    /\ UNCHANGED <<flockVars, now, stopwatches, jc, nr>>

\* aclose(), to its await of gather(): a stop_flock() for every registered
\* name, each run to its own await, so every entry is deleted and every
\* Flock's stop() has begun.  The server shuts down after its request
\* handlers have returned, so no other call is under way or begins.
Aclose ==
    /\ nb.pc = "manager" /\ nb.aclose = "none"
    /\ \A c \in DOMAIN nb.calls : nb.calls[c].pc = "done"
    /\ LET names == SelectSeq(<<"a", "b">>, LAMBDA n : n \in DOMAIN nb._flocks)
           stops == [i \in DOMAIN names |->
                        flock_stop(nb, NewCall("stop_flock", names[i], "aclose"),
                                   nb._flocks[names[i]])]
       IN nb' = [nb EXCEPT !.aclose = "gathering",
                           !._flocks = <<>>,
                           !.calls = @ \o stops]
    /\ ret' = NoCall
    /\ UNCHANGED <<flockVars, now, stopwatches, jc, nr>>

\* aclose(), gather() returns once every stop_flock() has returned; then
\* self._scheduler.close() ends every task the scheduler still holds.
AcloseCloses ==
    /\ nb.pc = "manager" /\ nb.aclose = "gathering"
    /\ \A c \in DOMAIN nb.calls : nb.calls[c].pc = "done"
    /\ nb' = [nb EXCEPT !.aclose = "closed",
                        !.flocks = [f \in DOMAIN nb.flocks |->
                                       [nb.flocks[f] EXCEPT !.live = FALSE]]]
    /\ ret' = NoCall
    /\ UNCHANGED <<flockVars, now, stopwatches, jc, nr>>

InitManager ==
    /\ NoFlock
    /\ ret = NoCall
    /\ now = 0
    /\ stopwatches = <<>>
    /\ jc = [pc |-> "none"]
    /\ nr = [pc |-> "none"]
    /\ nb = [pc |-> "manager", _flocks |-> <<>>, flocks |-> <<>>,
             calls |-> <<>>, aclose |-> "none"]

NextManager ==
    \/ \E name \in {"a", "b"} : StartFlock(name)
    \/ \E c \in 1..(MaxCalls + 2) : StartFlockRegisters(c)
    \/ \E c \in 1..(MaxCalls + 2) : StartFlockDone(c)
    \/ \E name \in {"a", "b"} : StopFlock(name)
    \/ \E c \in 1..(MaxCalls + 2) : StopFlockDone(c)
    \/ Aclose
    \/ AcloseCloses

\* Flock.stop() returns, whatever its Monkeys are doing (Monkey.stop() gives
\* up its wait), and the event loop runs a call that can go on.
SpecManager ==
    /\ InitManager
    /\ [][NextManager]_vars
    /\ \A c \in 1..(MaxCalls + 2) :
          /\ WF_vars(StartFlockRegisters(c))
          /\ WF_vars(StartFlockDone(c))
          /\ WF_vars(StopFlockDone(c))
    /\ WF_vars(AcloseCloses)

\* The Flocks that a call is stopping now.
BeingStopped ==
    {nb.calls[c].target :
        c \in {d \in DOMAIN nb.calls : nb.calls[d].pc \in {"stop_old", "stopping"}}}

\* C35: aclose() stops every registered Flock, all of them at once, and
\* closes the scheduler only after every stop has returned; the registry is
\* empty from the start of the stops on, and aclose() comes to its end.
C35_ServerShutdown ==
    /\ [](nb.aclose # "none" => DOMAIN nb._flocks = {})
    /\ [][(nb.aclose = "none" /\ nb'.aclose = "gathering") =>
             \A name \in DOMAIN nb._flocks :
                 \E c \in DOMAIN nb'.calls :
                     /\ nb'.calls[c].by = "aclose"
                     /\ nb'.calls[c].pc = "stopping"
                     /\ nb'.calls[c].target = nb._flocks[name]]_vars
    /\ [](nb.aclose = "gathering" =>
            \A c \in DOMAIN nb.calls :
                nb.calls[c].pc = "stopping" => ENABLED StopFlockDone(c))
    /\ [](nb.aclose = "closed" =>
            /\ \A c \in DOMAIN nb.calls : nb.calls[c].pc = "done"
            /\ \A f \in DOMAIN nb.flocks : ~nb.flocks[f].live)
    /\ (nb.aclose = "gathering") ~> (nb.aclose = "closed")

\* aclose() has closed the scheduler after it stopped two Flocks.
C35_Witness ==
    /\ nb.pc = "manager"
    /\ nb.aclose = "closed"
    /\ Cardinality({c \in DOMAIN nb.calls : nb.calls[c].by = "aclose"}) = 2
    /\ \A c \in DOMAIN nb.calls :
          nb.calls[c].by = "aclose" => nb.calls[c].covers

\* C36: under every interleaving of start_flock() and stop_flock(), a Flock
\* with running Monkeys is registered under its name or is being stopped,
\* and a Flock that start_flock() replaces in the registry has been stopped.
C36_RunningFlocksRegistered ==
    (nb.pc = "manager" /\ nb.aclose = "none") =>
        /\ \A f \in DOMAIN nb.flocks :
              nb.flocks[f].live =>
                 \/ /\ nb.flocks[f].name \in DOMAIN nb._flocks
                    /\ nb._flocks[nb.flocks[f].name] = f
                 \/ f \in BeingStopped
        /\ \A c \in DOMAIN nb.calls :
              \A f \in nb.calls[c].replaced :
                 nb.calls[c].pc = "starting" =>
                    ~nb.flocks[f].live \/ f \in BeingStopped

====
